---- MODULE Spec2Model ----
(***************************************************************************)
(* A model of qpack-rs: the QPACK prefix integer (Qnum), the static and    *)
(* the dynamic table, the encoder and decoder state, the plan / commit     *)
(* closures of Qpack, and decode_headers with its insert-count condition   *)
(* variable.                                                               *)
(*                                                                         *)
(* Conventions.                                                            *)
(*  - A string is the sequence of its bytes; a wire is a sequence of bytes.*)
(*  - Rust indices are 0-based; a VecDeque position p is list[p + 1] here. *)
(*  - usize / u32 / u16 arithmetic is the checked arithmetic of the        *)
(*    profile the repository's tests run in: an overflow, an unwrap() of   *)
(*    None and an out-of-range index are a panic, modelled as the error    *)
(*    "panic" that kills the thread and poisons the locks it holds.        *)
(*  - Header strings are carried with huffman = false; the Huffman         *)
(*    transformer is modelled on its own, in SpecHuffman.                  *)
(***************************************************************************)
EXTENDS Integers, Sequences, FiniteSets, TLC

----------------------------------------------------------------------------
(* Bounds of the model and the host configuration it is checked for. *)

\* dynamic_table_max_capacity handed to Qpack::new
MaxCapacity == 70
\* blocked_streams_limit handed to Qpack::new
BlockedStreamsLimit == 1
\* inserts a table accepts before the model stops inserting
MaxInserts == 3
\* references one entry may collect before the model stops committing blocks
MaxOutstanding == 2

----------------------------------------------------------------------------
(* Results of fallible operations: Result<T, Box<dyn Error>> and panics. *)

NoError == ""
EncoderStreamError == "EncoderStreamError"
DecoderStreamError == "DecoderStreamError"
DecompressionFailed == "DecompressionFailed"
Panic == "panic"

\* usize::MAX, the "not found" index of find_index / find_header
NOT_FOUND == -1

Min(a, b) == IF a < b THEN a ELSE b
Max(a, b) == IF a < b THEN b ELSE a

RECURSIVE Pow2(_)
Pow2(n) == IF n = 0 THEN 1 ELSE 2 * Pow2(n - 1)

----------------------------------------------------------------------------
(* The header fields the model encodes, inserts and sends *)

\* Header::new(name, value, sensitive), both strings with huffman = false
Header(name, value, sensitive) ==
  [name |-> name, value |-> value, sensitive |-> sensitive]

\* ("a", "x"), ("a", "yy"), ("b", "y"): sizes 34, 35, 34
HdrAX == Header(<<97>>, <<120>>, FALSE)
HdrAYY == Header(<<97>>, <<121, 121>>, FALSE)
HdrBY == Header(<<98>>, <<121>>, FALSE)
\* (":path", "/"), the static entry 1, and (":path", "/x"), its name only
HdrPath == Header(<<58, 112, 97, 116, 104>>, <<47>>, FALSE)
HdrPathX == Header(<<58, 112, 97, 116, 104>>, <<47, 120>>, FALSE)

Sensitive(h) == [h EXCEPT !.sensitive = TRUE]
PlainHeaders == {HdrAX, HdrAYY, HdrBY, HdrPath, HdrPathX}
KnownHeaders == PlainHeaders \cup {Sensitive(h) : h \in PlainHeaders}

----------------------------------------------------------------------------
(* transformer/qnum.rs *)

RECURSIVE Qnum_encode_rest(_)
\* the continuation loop of Qnum::encode
Qnum_encode_rest(val) ==
  IF val >= 128
    THEN <<(val % 128) + 128>> \o Qnum_encode_rest(val \div 128)
    ELSE <<val>>

\* Qnum::encode with the prefix's all-ones value taken for a value that fits
Qnum_encode_prefix_only(val, n) ==
  LET mask == IF n = 8 THEN 255 ELSE Pow2(n) - 1
  IN IF val <= mask THEN <<val>> ELSE <<mask>> \o Qnum_encode_rest(val - mask)

\* Qnum::encode: the bytes pushed; the returned length is their number
Qnum_encode(val, n) ==
  LET mask == IF n = 8 THEN 255 ELSE Pow2(n) - 1
  IN IF val < mask THEN <<val>> ELSE <<mask>> \o Qnum_encode_rest(val - mask)

RECURSIVE Qnum_decode_rest(_, _, _, _, _)
\* the continuation loop of Qnum::decode
Qnum_decode_rest(encoded, idx, len, m, val) ==
  IF idx + len >= Len(encoded) \/ m >= 32
    THEN [err |-> Panic, len |-> len, val |-> val]
    ELSE LET b == encoded[idx + len + 1]
             v == val + (b % 128) * Pow2(m)
         IN IF b \div 128 = 1
              THEN Qnum_decode_rest(encoded, idx, len + 1, m + 7, v)
              ELSE [err |-> NoError, len |-> len + 1, val |-> v]

\* Qnum::decode(encoded, idx, n) -> (len, val)
Qnum_decode(encoded, idx, n) ==
  IF idx >= Len(encoded)
    THEN [err |-> Panic, len |-> 0, val |-> 0]
    ELSE LET mask == Pow2(n) - 1
             val == encoded[idx + 1] % (mask + 1)
         IN IF val = mask
              THEN Qnum_decode_rest(encoded, idx, 1, 0, val)
              ELSE [err |-> NoError, len |-> 1, val |-> val]

----------------------------------------------------------------------------
(* types.rs *)

\* Header::size / DynamicHeader::size
Header_size(name, value) == Len(name) + Len(value) + 32

----------------------------------------------------------------------------
(* table/mod.rs: the static table *)

STATIC_TABLE_SIZE == 99

STATIC_TABLE ==
  <<
    \* 0: (":authority", "")
    <<<<58, 97, 117, 116, 104, 111, 114, 105, 116, 121>>, <<>>>>,
    \* 1: (":path", "/")
    <<<<58, 112, 97, 116, 104>>, <<47>>>>,
    \* 2: ("age", "0")
    <<<<97, 103, 101>>, <<48>>>>,
    \* 3: ("content-disposition", "")
    <<<<99, 111, 110, 116, 101, 110, 116, 45, 100, 105, 115, 112, 111, 115, 105, 116, 105, 111, 110>>, <<>>>>,
    \* 4: ("content-length", "0")
    <<<<99, 111, 110, 116, 101, 110, 116, 45, 108, 101, 110, 103, 116, 104>>, <<48>>>>,
    \* 5: ("cookie", "")
    <<<<99, 111, 111, 107, 105, 101>>, <<>>>>,
    \* 6: ("date", "")
    <<<<100, 97, 116, 101>>, <<>>>>,
    \* 7: ("etag", "")
    <<<<101, 116, 97, 103>>, <<>>>>,
    \* 8: ("if-modified-since", "")
    <<<<105, 102, 45, 109, 111, 100, 105, 102, 105, 101, 100, 45, 115, 105, 110, 99, 101>>, <<>>>>,
    \* 9: ("if-none-match", "")
    <<<<105, 102, 45, 110, 111, 110, 101, 45, 109, 97, 116, 99, 104>>, <<>>>>,
    \* 10: ("last-modified", "")
    <<<<108, 97, 115, 116, 45, 109, 111, 100, 105, 102, 105, 101, 100>>, <<>>>>,
    \* 11: ("link", "")
    <<<<108, 105, 110, 107>>, <<>>>>,
    \* 12: ("location", "")
    <<<<108, 111, 99, 97, 116, 105, 111, 110>>, <<>>>>,
    \* 13: ("referer", "")
    <<<<114, 101, 102, 101, 114, 101, 114>>, <<>>>>,
    \* 14: ("set-cookie", "")
    <<<<115, 101, 116, 45, 99, 111, 111, 107, 105, 101>>, <<>>>>,
    \* 15: (":method", "CONNECT")
    <<<<58, 109, 101, 116, 104, 111, 100>>, <<67, 79, 78, 78, 69, 67, 84>>>>,
    \* 16: (":method", "DELETE")
    <<<<58, 109, 101, 116, 104, 111, 100>>, <<68, 69, 76, 69, 84, 69>>>>,
    \* 17: (":method", "GET")
    <<<<58, 109, 101, 116, 104, 111, 100>>, <<71, 69, 84>>>>,
    \* 18: (":method", "HEAD")
    <<<<58, 109, 101, 116, 104, 111, 100>>, <<72, 69, 65, 68>>>>,
    \* 19: (":method", "OPTIONS")
    <<<<58, 109, 101, 116, 104, 111, 100>>, <<79, 80, 84, 73, 79, 78, 83>>>>,
    \* 20: (":method", "POST")
    <<<<58, 109, 101, 116, 104, 111, 100>>, <<80, 79, 83, 84>>>>,
    \* 21: (":method", "PUT")
    <<<<58, 109, 101, 116, 104, 111, 100>>, <<80, 85, 84>>>>,
    \* 22: (":scheme", "http")
    <<<<58, 115, 99, 104, 101, 109, 101>>, <<104, 116, 116, 112>>>>,
    \* 23: (":scheme", "https")
    <<<<58, 115, 99, 104, 101, 109, 101>>, <<104, 116, 116, 112, 115>>>>,
    \* 24: (":status", "103")
    <<<<58, 115, 116, 97, 116, 117, 115>>, <<49, 48, 51>>>>,
    \* 25: (":status", "200")
    <<<<58, 115, 116, 97, 116, 117, 115>>, <<50, 48, 48>>>>,
    \* 26: (":status", "304")
    <<<<58, 115, 116, 97, 116, 117, 115>>, <<51, 48, 52>>>>,
    \* 27: (":status", "404")
    <<<<58, 115, 116, 97, 116, 117, 115>>, <<52, 48, 52>>>>,
    \* 28: (":status", "503")
    <<<<58, 115, 116, 97, 116, 117, 115>>, <<53, 48, 51>>>>,
    \* 29: ("accept", "*/*")
    <<<<97, 99, 99, 101, 112, 116>>, <<42, 47, 42>>>>,
    \* 30: ("accept", "application/dns-message")
    <<<<97, 99, 99, 101, 112, 116>>, <<97, 112, 112, 108, 105, 99, 97, 116, 105, 111, 110, 47, 100, 110, 115, 45, 109, 101, 115, 115, 97, 103, 101>>>>,
    \* 31: ("accept-encoding", "gzip, deflate, br")
    <<<<97, 99, 99, 101, 112, 116, 45, 101, 110, 99, 111, 100, 105, 110, 103>>, <<103, 122, 105, 112, 44, 32, 100, 101, 102, 108, 97, 116, 101, 44, 32, 98, 114>>>>,
    \* 32: ("accept-ranges", "bytes")
    <<<<97, 99, 99, 101, 112, 116, 45, 114, 97, 110, 103, 101, 115>>, <<98, 121, 116, 101, 115>>>>,
    \* 33: ("access-control-allow-headers", "cache-control")
    <<<<97, 99, 99, 101, 115, 115, 45, 99, 111, 110, 116, 114, 111, 108, 45, 97, 108, 108, 111, 119, 45, 104, 101, 97, 100, 101, 114, 115>>, <<99, 97, 99, 104, 101, 45, 99, 111, 110, 116, 114, 111, 108>>>>,
    \* 34: ("access-control-allow-headers", "content-type")
    <<<<97, 99, 99, 101, 115, 115, 45, 99, 111, 110, 116, 114, 111, 108, 45, 97, 108, 108, 111, 119, 45, 104, 101, 97, 100, 101, 114, 115>>, <<99, 111, 110, 116, 101, 110, 116, 45, 116, 121, 112, 101>>>>,
    \* 35: ("access-control-allow-origin", "*")
    <<<<97, 99, 99, 101, 115, 115, 45, 99, 111, 110, 116, 114, 111, 108, 45, 97, 108, 108, 111, 119, 45, 111, 114, 105, 103, 105, 110>>, <<42>>>>,
    \* 36: ("cache-control", "max-age=0")
    <<<<99, 97, 99, 104, 101, 45, 99, 111, 110, 116, 114, 111, 108>>, <<109, 97, 120, 45, 97, 103, 101, 61, 48>>>>,
    \* 37: ("cache-control", "max-age=2592000")
    <<<<99, 97, 99, 104, 101, 45, 99, 111, 110, 116, 114, 111, 108>>, <<109, 97, 120, 45, 97, 103, 101, 61, 50, 53, 57, 50, 48, 48, 48>>>>,
    \* 38: ("cache-control", "max-age=604800")
    <<<<99, 97, 99, 104, 101, 45, 99, 111, 110, 116, 114, 111, 108>>, <<109, 97, 120, 45, 97, 103, 101, 61, 54, 48, 52, 56, 48, 48>>>>,
    \* 39: ("cache-control", "no-cache")
    <<<<99, 97, 99, 104, 101, 45, 99, 111, 110, 116, 114, 111, 108>>, <<110, 111, 45, 99, 97, 99, 104, 101>>>>,
    \* 40: ("cache-control", "no-store")
    <<<<99, 97, 99, 104, 101, 45, 99, 111, 110, 116, 114, 111, 108>>, <<110, 111, 45, 115, 116, 111, 114, 101>>>>,
    \* 41: ("cache-control", "public, max-age=31536000")
    <<<<99, 97, 99, 104, 101, 45, 99, 111, 110, 116, 114, 111, 108>>, <<112, 117, 98, 108, 105, 99, 44, 32, 109, 97, 120, 45, 97, 103, 101, 61, 51, 49, 53, 51, 54, 48, 48, 48>>>>,
    \* 42: ("content-encoding", "br")
    <<<<99, 111, 110, 116, 101, 110, 116, 45, 101, 110, 99, 111, 100, 105, 110, 103>>, <<98, 114>>>>,
    \* 43: ("content-encoding", "gzip")
    <<<<99, 111, 110, 116, 101, 110, 116, 45, 101, 110, 99, 111, 100, 105, 110, 103>>, <<103, 122, 105, 112>>>>,
    \* 44: ("content-type", "application/dns-message")
    <<<<99, 111, 110, 116, 101, 110, 116, 45, 116, 121, 112, 101>>, <<97, 112, 112, 108, 105, 99, 97, 116, 105, 111, 110, 47, 100, 110, 115, 45, 109, 101, 115, 115, 97, 103, 101>>>>,
    \* 45: ("content-type", "application/javascript")
    <<<<99, 111, 110, 116, 101, 110, 116, 45, 116, 121, 112, 101>>, <<97, 112, 112, 108, 105, 99, 97, 116, 105, 111, 110, 47, 106, 97, 118, 97, 115, 99, 114, 105, 112, 116>>>>,
    \* 46: ("content-type", "application/json")
    <<<<99, 111, 110, 116, 101, 110, 116, 45, 116, 121, 112, 101>>, <<97, 112, 112, 108, 105, 99, 97, 116, 105, 111, 110, 47, 106, 115, 111, 110>>>>,
    \* 47: ("content-type", "application/x-www-form-urlencoded")
    <<<<99, 111, 110, 116, 101, 110, 116, 45, 116, 121, 112, 101>>, <<97, 112, 112, 108, 105, 99, 97, 116, 105, 111, 110, 47, 120, 45, 119, 119, 119, 45, 102, 111, 114, 109, 45, 117, 114, 108, 101, 110, 99, 111, 100, 101, 100>>>>,
    \* 48: ("content-type", "image/gif")
    <<<<99, 111, 110, 116, 101, 110, 116, 45, 116, 121, 112, 101>>, <<105, 109, 97, 103, 101, 47, 103, 105, 102>>>>,
    \* 49: ("content-type", "image/jpeg")
    <<<<99, 111, 110, 116, 101, 110, 116, 45, 116, 121, 112, 101>>, <<105, 109, 97, 103, 101, 47, 106, 112, 101, 103>>>>,
    \* 50: ("content-type", "image/png")
    <<<<99, 111, 110, 116, 101, 110, 116, 45, 116, 121, 112, 101>>, <<105, 109, 97, 103, 101, 47, 112, 110, 103>>>>,
    \* 51: ("content-type", "text/css")
    <<<<99, 111, 110, 116, 101, 110, 116, 45, 116, 121, 112, 101>>, <<116, 101, 120, 116, 47, 99, 115, 115>>>>,
    \* 52: ("content-type", "text/html; charset=utf-8")
    <<<<99, 111, 110, 116, 101, 110, 116, 45, 116, 121, 112, 101>>, <<116, 101, 120, 116, 47, 104, 116, 109, 108, 59, 32, 99, 104, 97, 114, 115, 101, 116, 61, 117, 116, 102, 45, 56>>>>,
    \* 53: ("content-type", "text/plain")
    <<<<99, 111, 110, 116, 101, 110, 116, 45, 116, 121, 112, 101>>, <<116, 101, 120, 116, 47, 112, 108, 97, 105, 110>>>>,
    \* 54: ("content-type", "text/plain;charset=utf-8")
    <<<<99, 111, 110, 116, 101, 110, 116, 45, 116, 121, 112, 101>>, <<116, 101, 120, 116, 47, 112, 108, 97, 105, 110, 59, 99, 104, 97, 114, 115, 101, 116, 61, 117, 116, 102, 45, 56>>>>,
    \* 55: ("range", "bytes=0-")
    <<<<114, 97, 110, 103, 101>>, <<98, 121, 116, 101, 115, 61, 48, 45>>>>,
    \* 56: ("strict-transport-security", "max-age=31536000")
    <<<<115, 116, 114, 105, 99, 116, 45, 116, 114, 97, 110, 115, 112, 111, 114, 116, 45, 115, 101, 99, 117, 114, 105, 116, 121>>, <<109, 97, 120, 45, 97, 103, 101, 61, 51, 49, 53, 51, 54, 48, 48, 48>>>>,
    \* 57: ("strict-transport-security", "max-age=31536000; includesubdomains")
    <<<<115, 116, 114, 105, 99, 116, 45, 116, 114, 97, 110, 115, 112, 111, 114, 116, 45, 115, 101, 99, 117, 114, 105, 116, 121>>, <<109, 97, 120, 45, 97, 103, 101, 61, 51, 49, 53, 51, 54, 48, 48, 48, 59, 32, 105, 110, 99, 108, 117, 100, 101, 115, 117, 98, 100, 111, 109, 97, 105, 110, 115>>>>,
    \* 58: ("strict-transport-security", "max-age=31536000; includesubdomains; preload")
    <<<<115, 116, 114, 105, 99, 116, 45, 116, 114, 97, 110, 115, 112, 111, 114, 116, 45, 115, 101, 99, 117, 114, 105, 116, 121>>, <<109, 97, 120, 45, 97, 103, 101, 61, 51, 49, 53, 51, 54, 48, 48, 48, 59, 32, 105, 110, 99, 108, 117, 100, 101, 115, 117, 98, 100, 111, 109, 97, 105, 110, 115, 59, 32, 112, 114, 101, 108, 111, 97, 100>>>>,
    \* 59: ("vary", "accept-encoding")
    <<<<118, 97, 114, 121>>, <<97, 99, 99, 101, 112, 116, 45, 101, 110, 99, 111, 100, 105, 110, 103>>>>,
    \* 60: ("vary", "origin")
    <<<<118, 97, 114, 121>>, <<111, 114, 105, 103, 105, 110>>>>,
    \* 61: ("x-content-type-options", "nosniff")
    <<<<120, 45, 99, 111, 110, 116, 101, 110, 116, 45, 116, 121, 112, 101, 45, 111, 112, 116, 105, 111, 110, 115>>, <<110, 111, 115, 110, 105, 102, 102>>>>,
    \* 62: ("x-xss-protection", "1; mode=block")
    <<<<120, 45, 120, 115, 115, 45, 112, 114, 111, 116, 101, 99, 116, 105, 111, 110>>, <<49, 59, 32, 109, 111, 100, 101, 61, 98, 108, 111, 99, 107>>>>,
    \* 63: (":status", "100")
    <<<<58, 115, 116, 97, 116, 117, 115>>, <<49, 48, 48>>>>,
    \* 64: (":status", "204")
    <<<<58, 115, 116, 97, 116, 117, 115>>, <<50, 48, 52>>>>,
    \* 65: (":status", "206")
    <<<<58, 115, 116, 97, 116, 117, 115>>, <<50, 48, 54>>>>,
    \* 66: (":status", "302")
    <<<<58, 115, 116, 97, 116, 117, 115>>, <<51, 48, 50>>>>,
    \* 67: (":status", "400")
    <<<<58, 115, 116, 97, 116, 117, 115>>, <<52, 48, 48>>>>,
    \* 68: (":status", "403")
    <<<<58, 115, 116, 97, 116, 117, 115>>, <<52, 48, 51>>>>,
    \* 69: (":status", "421")
    <<<<58, 115, 116, 97, 116, 117, 115>>, <<52, 50, 49>>>>,
    \* 70: (":status", "425")
    <<<<58, 115, 116, 97, 116, 117, 115>>, <<52, 50, 53>>>>,
    \* 71: (":status", "500")
    <<<<58, 115, 116, 97, 116, 117, 115>>, <<53, 48, 48>>>>,
    \* 72: ("accept-language", "")
    <<<<97, 99, 99, 101, 112, 116, 45, 108, 97, 110, 103, 117, 97, 103, 101>>, <<>>>>,
    \* 73: ("access-control-allow-credentials", "FALSE")
    <<<<97, 99, 99, 101, 115, 115, 45, 99, 111, 110, 116, 114, 111, 108, 45, 97, 108, 108, 111, 119, 45, 99, 114, 101, 100, 101, 110, 116, 105, 97, 108, 115>>, <<70, 65, 76, 83, 69>>>>,
    \* 74: ("access-control-allow-credentials", "TRUE")
    <<<<97, 99, 99, 101, 115, 115, 45, 99, 111, 110, 116, 114, 111, 108, 45, 97, 108, 108, 111, 119, 45, 99, 114, 101, 100, 101, 110, 116, 105, 97, 108, 115>>, <<84, 82, 85, 69>>>>,
    \* 75: ("access-control-allow-headers", "*")
    <<<<97, 99, 99, 101, 115, 115, 45, 99, 111, 110, 116, 114, 111, 108, 45, 97, 108, 108, 111, 119, 45, 104, 101, 97, 100, 101, 114, 115>>, <<42>>>>,
    \* 76: ("access-control-allow-methods", "get")
    <<<<97, 99, 99, 101, 115, 115, 45, 99, 111, 110, 116, 114, 111, 108, 45, 97, 108, 108, 111, 119, 45, 109, 101, 116, 104, 111, 100, 115>>, <<103, 101, 116>>>>,
    \* 77: ("access-control-allow-methods", "get, post, options")
    <<<<97, 99, 99, 101, 115, 115, 45, 99, 111, 110, 116, 114, 111, 108, 45, 97, 108, 108, 111, 119, 45, 109, 101, 116, 104, 111, 100, 115>>, <<103, 101, 116, 44, 32, 112, 111, 115, 116, 44, 32, 111, 112, 116, 105, 111, 110, 115>>>>,
    \* 78: ("access-control-allow-methods", "options")
    <<<<97, 99, 99, 101, 115, 115, 45, 99, 111, 110, 116, 114, 111, 108, 45, 97, 108, 108, 111, 119, 45, 109, 101, 116, 104, 111, 100, 115>>, <<111, 112, 116, 105, 111, 110, 115>>>>,
    \* 79: ("access-control-expose-headers", "content-length")
    <<<<97, 99, 99, 101, 115, 115, 45, 99, 111, 110, 116, 114, 111, 108, 45, 101, 120, 112, 111, 115, 101, 45, 104, 101, 97, 100, 101, 114, 115>>, <<99, 111, 110, 116, 101, 110, 116, 45, 108, 101, 110, 103, 116, 104>>>>,
    \* 80: ("access-control-request-headers", "content-type")
    <<<<97, 99, 99, 101, 115, 115, 45, 99, 111, 110, 116, 114, 111, 108, 45, 114, 101, 113, 117, 101, 115, 116, 45, 104, 101, 97, 100, 101, 114, 115>>, <<99, 111, 110, 116, 101, 110, 116, 45, 116, 121, 112, 101>>>>,
    \* 81: ("access-control-request-method", "get")
    <<<<97, 99, 99, 101, 115, 115, 45, 99, 111, 110, 116, 114, 111, 108, 45, 114, 101, 113, 117, 101, 115, 116, 45, 109, 101, 116, 104, 111, 100>>, <<103, 101, 116>>>>,
    \* 82: ("access-control-request-method", "post")
    <<<<97, 99, 99, 101, 115, 115, 45, 99, 111, 110, 116, 114, 111, 108, 45, 114, 101, 113, 117, 101, 115, 116, 45, 109, 101, 116, 104, 111, 100>>, <<112, 111, 115, 116>>>>,
    \* 83: ("alt-svc", "clear")
    <<<<97, 108, 116, 45, 115, 118, 99>>, <<99, 108, 101, 97, 114>>>>,
    \* 84: ("authorization", "")
    <<<<97, 117, 116, 104, 111, 114, 105, 122, 97, 116, 105, 111, 110>>, <<>>>>,
    \* 85: ("content-security-policy", "script-src 'none'; object-src 'none'; base-uri 'none'")
    <<<<99, 111, 110, 116, 101, 110, 116, 45, 115, 101, 99, 117, 114, 105, 116, 121, 45, 112, 111, 108, 105, 99, 121>>, <<115, 99, 114, 105, 112, 116, 45, 115, 114, 99, 32, 39, 110, 111, 110, 101, 39, 59, 32, 111, 98, 106, 101, 99, 116, 45, 115, 114, 99, 32, 39, 110, 111, 110, 101, 39, 59, 32, 98, 97, 115, 101, 45, 117, 114, 105, 32, 39, 110, 111, 110, 101, 39>>>>,
    \* 86: ("early-data", "1")
    <<<<101, 97, 114, 108, 121, 45, 100, 97, 116, 97>>, <<49>>>>,
    \* 87: ("expect-ct", "")
    <<<<101, 120, 112, 101, 99, 116, 45, 99, 116>>, <<>>>>,
    \* 88: ("forwarded", "")
    <<<<102, 111, 114, 119, 97, 114, 100, 101, 100>>, <<>>>>,
    \* 89: ("if-range", "")
    <<<<105, 102, 45, 114, 97, 110, 103, 101>>, <<>>>>,
    \* 90: ("origin", "")
    <<<<111, 114, 105, 103, 105, 110>>, <<>>>>,
    \* 91: ("purpose", "prefetch")
    <<<<112, 117, 114, 112, 111, 115, 101>>, <<112, 114, 101, 102, 101, 116, 99, 104>>>>,
    \* 92: ("server", "")
    <<<<115, 101, 114, 118, 101, 114>>, <<>>>>,
    \* 93: ("timing-allow-origin", "*")
    <<<<116, 105, 109, 105, 110, 103, 45, 97, 108, 108, 111, 119, 45, 111, 114, 105, 103, 105, 110>>, <<42>>>>,
    \* 94: ("upgrade-insecure-requests", "1")
    <<<<117, 112, 103, 114, 97, 100, 101, 45, 105, 110, 115, 101, 99, 117, 114, 101, 45, 114, 101, 113, 117, 101, 115, 116, 115>>, <<49>>>>,
    \* 95: ("user-agent", "")
    <<<<117, 115, 101, 114, 45, 97, 103, 101, 110, 116>>, <<>>>>,
    \* 96: ("x-forwarded-for", "")
    <<<<120, 45, 102, 111, 114, 119, 97, 114, 100, 101, 100, 45, 102, 111, 114>>, <<>>>>,
    \* 97: ("x-frame-options", "deny")
    <<<<120, 45, 102, 114, 97, 109, 101, 45, 111, 112, 116, 105, 111, 110, 115>>, <<100, 101, 110, 121>>>>,
    \* 98: ("x-frame-options", "sameorigin")
    <<<<120, 45, 102, 114, 97, 109, 101, 45, 111, 112, 116, 105, 111, 110, 115>>, <<115, 97, 109, 101, 111, 114, 105, 103, 105, 110>>>>
  >>

\* Table::get_header_from_static; STATIC_TABLE[idx].into()
get_header_from_static(idx) ==
  LET into(e) == [err |-> NoError, header |-> Header(e[1], e[2], FALSE)]
  IN IF STATIC_TABLE_SIZE <= idx
       THEN [err |-> DecompressionFailed, header |-> Header(<<>>, <<>>, FALSE)]
       ELSE into(STATIC_TABLE[idx + 1])

----------------------------------------------------------------------------
(* table/dynamic_table.rs *)

\* Entry::new / Entry::duplicate / Entry::refer_name: outstanding_count 0
Entry(name, value) ==
  [name |-> name, value |-> value, size |-> Header_size(name, value),
   outstanding_count |-> 0]

\* a HashMap: insert overwrites, remove drops the key
Map_insert(m, k, v) == [x \in DOMAIN m \cup {k} |-> IF x = k THEN v ELSE m[x]]
Map_remove(m, k) == [x \in DOMAIN m \ {k} |-> m[x]]
EmptyMap == [x \in {} |-> 0]

\* DynamicTable::new; insert_count is the usize behind cv_insert_count
DynamicTable_new(max_capacity) ==
  [list |-> <<>>, current_size |-> 0, capacity |-> 0,
   known_received_count |-> 0, max_capacity |-> max_capacity,
   insert_count |-> 0, eviction_count |-> 0,
   both_mapping |-> EmptyMap, key_mapping |-> EmptyMap]

Ok(t) == [err |-> NoError, t |-> t]
Err(e, t) == [err |-> e, t |-> t]

\* DynamicTable::remove_entry_mapping
remove_entry_mapping(t, entry) ==
  LET both_key == <<entry.name, entry.value>>
      key_key == entry.name
      both == IF both_key \in DOMAIN t.both_mapping
                 /\ t.both_mapping[both_key] = t.eviction_count
                THEN Map_remove(t.both_mapping, both_key)
                ELSE t.both_mapping
      key == IF key_key \in DOMAIN t.key_mapping
                /\ t.key_mapping[key_key] = t.eviction_count
               THEN Map_remove(t.key_mapping, key_key)
               ELSE t.key_mapping
  IN [t EXCEPT !.both_mapping = both, !.key_mapping = key]

\* DynamicTable::insert_entry_mapping
insert_entry_mapping(t, entry, insert_count) ==
  [t EXCEPT
     !.both_mapping = Map_insert(@, <<entry.name, entry.value>>, insert_count - 1),
     !.key_mapping = Map_insert(@, entry.name, insert_count - 1)]

\* the guard of the first loop of evict_upto: may position idx be evicted
evict_guard(t, idx) == ~(t.known_received_count < idx)

RECURSIVE evict_scan(_, _, _, _)
\* the first loop of DynamicTable::evict_upto: how many entries have to go
evict_scan(t, upto, current_size, idx) ==
  IF upto < current_size
    THEN IF ~evict_guard(t, idx)
           THEN [err |-> EncoderStreamError, current_size |-> current_size, idx |-> idx]
           ELSE IF idx >= Len(t.list) \/ current_size < t.list[idx + 1].size
                  THEN [err |-> Panic, current_size |-> current_size, idx |-> idx]
                  ELSE evict_scan(t, upto, current_size - t.list[idx + 1].size, idx + 1)
    ELSE [err |-> NoError, current_size |-> current_size, idx |-> idx]

RECURSIVE evict_pop(_, _)
\* the second loop of DynamicTable::evict_upto: pop_front idx entries
evict_pop(t, idx) ==
  IF idx > 0
    THEN evict_pop([remove_entry_mapping(t, Head(t.list)) EXCEPT
                      !.list = Tail(@), !.eviction_count = @ + 1],
                   idx - 1)
    ELSE t

\* an evict_upto that pops the entries and keeps the current_size it had
evict_upto_stale_size(t, upto) ==
  LET pop(s) == IF s.err # NoError THEN Err(s.err, t) ELSE Ok(evict_pop(t, s.idx))
  IN pop(evict_scan(t, upto, t.current_size, 0))

\* DynamicTable::evict_upto
evict_upto(t, upto) ==
  LET pop(s) ==
        IF s.err # NoError
          THEN Err(s.err, t)
          ELSE Ok([evict_pop(t, s.idx) EXCEPT !.current_size = s.current_size])
  IN pop(evict_scan(t, upto, t.current_size, 0))

\* DynamicTable::is_evictable_upto
RECURSIVE is_evictable_scan(_, _, _, _)
is_evictable_scan(t, upto, current_size, idx) ==
  IF idx < Len(t.list) /\ upto < current_size
    THEN IF t.list[idx + 1].outstanding_count > 0 \/ t.known_received_count < idx
           THEN FALSE
           ELSE is_evictable_scan(t, upto, current_size - t.list[idx + 1].size, idx + 1)
    ELSE TRUE

is_evictable_upto(t, upto) == is_evictable_scan(t, upto, t.current_size, 0)

RECURSIVE SumSizes(_)
SumSizes(headers) ==
  IF headers = <<>> THEN 0
  ELSE Header_size(Head(headers).name, Head(headers).value) + SumSizes(Tail(headers))

\* DynamicTable::is_insertable
is_insertable(t, headers) ==
  LET upto(size) == IF t.capacity < size THEN 0 ELSE t.capacity - size
  IN is_evictable_upto(t, upto(SumSizes(headers)))

\* DynamicTable::increment_insert_count (the notify_all is the caller's step)
increment_insert_count(t) == [t EXCEPT !.insert_count = @ + 1]

\* an insert that never looks at the capacity
insert_table_entry_unchecked(t, entry) ==
  Ok([t EXCEPT !.list = Append(@, entry), !.insert_count = @ + 1,
               !.current_size = @ + entry.size])

\* DynamicTable::insert_table_entry
insert_table_entry(t, entry) ==
  LET map(t2) == insert_entry_mapping(t2, entry, t2.insert_count)
      push(e) ==
        IF e.err # NoError
          THEN Err(e.err, t)
          ELSE Ok([map(increment_insert_count([e.t EXCEPT !.list = Append(@, entry)]))
                     EXCEPT !.current_size = @ + entry.size])
  IN IF t.capacity < entry.size
       THEN Err(EncoderStreamError, t)
       ELSE push(evict_upto(t, t.capacity - entry.size))

\* DynamicTable::insert_header
insert_header(t, header) == insert_table_entry(t, Entry(header.name, header.value))

\* set_capacity that lowers the capacity without evicting
set_capacity_no_evict(t, cap) ==
  IF t.max_capacity < cap THEN Err(EncoderStreamError, t)
  ELSE Ok([t EXCEPT !.capacity = cap])

\* DynamicTable::set_capacity
set_capacity(t, cap) ==
  LET set(e) ==
        IF e.err # NoError THEN Err(e.err, t) ELSE Ok([e.t EXCEPT !.capacity = cap])
  IN IF t.max_capacity < cap
       THEN Err(EncoderStreamError, t)
       ELSE set(evict_upto(t, cap))

\* DynamicTable::get_entry (the Entry) and DynamicTable::get (its Header)
get_entry(t, abs_idx) ==
  IF abs_idx >= 0 /\ abs_idx < Len(t.list)
    THEN [err |-> NoError, entry |-> t.list[abs_idx + 1]]
    ELSE [err |-> DecompressionFailed, entry |-> Entry(<<>>, <<>>)]

DynamicTable_get(t, abs_idx) ==
  LET from(e) == [err |-> e.err, header |-> Header(e.entry.name, e.entry.value, FALSE)]
  IN from(get_entry(t, abs_idx))

\* DynamicTable::find_index -> (both_match, idx)
find_index(t, target) ==
  IF <<target.name, target.value>> \in DOMAIN t.both_mapping
    THEN <<TRUE, t.both_mapping[<<target.name, target.value>>] - t.eviction_count>>
    ELSE IF target.name \in DOMAIN t.key_mapping
           THEN <<FALSE, t.key_mapping[target.name] - t.eviction_count>>
           ELSE <<FALSE, NOT_FOUND>>

\* DynamicTable::ref_entry_at
ref_entry_at(t, idx) ==
  IF idx >= 0 /\ idx < Len(t.list)
    THEN Ok([t EXCEPT !.list[idx + 1].outstanding_count = @ + 1])
    ELSE Err(DecompressionFailed, t)

\* DynamicTable::deref_entry_at
deref_entry_at(t, idx) ==
  IF idx >= 0 /\ idx < Len(t.list)
    THEN IF t.list[idx + 1].outstanding_count = 0
           THEN Err(Panic, t)
           ELSE Ok([t EXCEPT !.list[idx + 1].outstanding_count = @ - 1])
    ELSE Err(DecompressionFailed, t)

RECURSIVE deref_all(_, _)
\* ids.iter().for_each(|id| { let _ = self.deref_entry_at(*id); })
deref_all(t, ids) ==
  LET rest(r) == IF r.err = Panic THEN r ELSE deref_all(r.t, Tail(ids))
  IN IF ids = <<>> THEN Ok(t) ELSE rest(deref_entry_at(t, Head(ids)))

\* DynamicTable::ack_section
DynamicTable_ack_section(t, section, ids) ==
  LET set(r) ==
        IF r.err = Panic THEN r ELSE Ok([r.t EXCEPT !.known_received_count = section])
  IN set(deref_all(t, ids))

\* DynamicTable::cancel_section
DynamicTable_cancel_section(t, ids) == deref_all(t, ids)

----------------------------------------------------------------------------
(* table/mod.rs: Table *)

RECURSIVE find_header_static(_, _, _, _)
\* the loop of Table::find_header over table = STATIC_TABLE, from position
\* idx on: <<returned, both_match, candidate>>
find_header_static(table, target, idx, static_candidate_idx) ==
  IF idx >= STATIC_TABLE_SIZE
    THEN <<FALSE, FALSE, static_candidate_idx>>
    ELSE IF target.name = table[idx + 1][1]
           THEN IF target.value = table[idx + 1][2]
                  THEN <<TRUE, TRUE, idx>>
                  ELSE IF static_candidate_idx = NOT_FOUND
                         THEN find_header_static(table, target, idx + 1, idx)
                         ELSE IF table[static_candidate_idx + 1][1] # table[idx + 1][1]
                                THEN <<TRUE, FALSE, static_candidate_idx>>
                                ELSE find_header_static(table, target, idx + 1,
                                                        static_candidate_idx)
           ELSE find_header_static(table, target, idx + 1, static_candidate_idx)

\* the loop over STATIC_TABLE from its start.  STATIC_TABLE is immutable, so
\* the result for the headers the model uses is computed once and looked up.
StaticScanMemo ==
  [h \in KnownHeaders |-> find_header_static(STATIC_TABLE, h, 0, NOT_FOUND)]
StaticScan(target) == StaticScanMemo[target]

\* Table::find_header -> (both_match, on_static, idx)
find_header(t, target) ==
  LET pick(s, ret) ==
        IF s[1]
          THEN <<s[2], TRUE, s[3]>>
          ELSE IF ret[2] = NOT_FOUND /\ s[3] # NOT_FOUND
                 THEN <<FALSE, TRUE, s[3]>>
                 ELSE <<ret[1], FALSE, ret[2]>>
  IN pick(StaticScan(target), find_index(t, target))

\* Table::find_headers
find_headers(t, headers) == [i \in 1..Len(headers) |-> find_header(t, headers[i])]

\* an index counted from the oldest entry whatever the base
calc_abs_index_from_oldest(base, idx, post_base) ==
  [err |-> NoError, abs |-> idx]

\* Table::calc_abs_index; base - idx - 1 on usize panics when base <= idx
calc_abs_index(base, idx, post_base) ==
  IF post_base
    THEN [err |-> NoError, abs |-> base + idx]
    ELSE IF base < idx + 1
           THEN [err |-> Panic, abs |-> 0]
           ELSE [err |-> NoError, abs |-> base - idx - 1]

\* Table::get_entry_from_dynamic
get_entry_from_dynamic(t, base, idx, post_base) ==
  LET at(a) ==
        IF a.err # NoError
          THEN [err |-> a.err, entry |-> Entry(<<>>, <<>>)]
          ELSE get_entry(t, a.abs)
  IN at(calc_abs_index(base, idx, post_base))

\* Table::get_header_from_dynamic
get_header_from_dynamic(t, base, idx, post_base) ==
  LET at(a) ==
        IF a.err # NoError
          THEN [err |-> a.err, header |-> Header(<<>>, <<>>, FALSE)]
          ELSE DynamicTable_get(t, a.abs)
  IN at(calc_abs_index(base, idx, post_base))

\* Table::get_max_entries
get_max_entries(t) == t.max_capacity \div 32

(* The CommitFuncWithDynamicTable closures Table hands out: what each one   *)
(* captured when it was made.                                              *)
TableOp(op, entry, num, stream_id) ==
  [op |-> op, entry |-> entry, num |-> num, stream_id |-> stream_id]
NoEntry == Entry(<<>>, <<>>)
OpInsert(entry) == TableOp("insert", entry, 0, 0)
OpSetCapacity(cap) == TableOp("set_capacity", NoEntry, cap, 0)
OpIncrement(n) == TableOp("insert_count_increment", NoEntry, n, 0)
OpAck(stream_id) == TableOp("section_ackowledgment", NoEntry, 0, stream_id)
OpCancel(stream_id) == TableOp("stream_cancellation", NoEntry, 0, stream_id)

\* Table::set_dynamic_table_capacity
Table_set_dynamic_table_capacity(capacity) ==
  [err |-> NoError, op |-> OpSetCapacity(capacity)]

\* Table::insert_refer_name
Table_insert_refer_name(t, idx, value, on_static) ==
  LET \* header.set_value(value)
      on_header(h) ==
        IF h.err # NoError
          THEN [err |-> h.err, op |-> OpInsert(NoEntry)]
          ELSE [err |-> NoError, op |-> OpInsert(Entry(h.header.name, value))]
      \* Entry::refer_name(*entry, value.value)
      on_entry(e) ==
        IF e.err # NoError
          THEN [err |-> e.err, op |-> OpInsert(NoEntry)]
          ELSE [err |-> NoError, op |-> OpInsert(Entry(e.entry.name, value))]
  IN IF on_static
       THEN on_header(get_header_from_static(idx))
       ELSE on_entry(get_entry_from_dynamic(t, t.insert_count, idx, FALSE))

\* Table::insert_both_literal
Table_insert_both_literal(header) ==
  [err |-> NoError, op |-> OpInsert(Entry(header.name, header.value))]

\* Table::duplicate
Table_duplicate(t, idx) ==
  LET \* Entry::duplicate: the header and the size, outstanding_count 0
      dup(e) ==
        IF e.err # NoError
          THEN [err |-> e.err, op |-> OpInsert(NoEntry)]
          ELSE [err |-> NoError,
                op |-> OpInsert([e.entry EXCEPT !.outstanding_count = 0])]
  IN dup(get_entry_from_dynamic(t, t.insert_count, idx, FALSE))

----------------------------------------------------------------------------
(* transformer/encoder.rs: Encoder *)

\* Encoder::new; pending_sections: stream_id -> <<required_insert_count, indices>>
Encoder_new == [known_sending_count |-> 0, pending_sections |-> EmptyMap]

\* Encoder::add_section
Encoder_add_section(e, stream_id, required_insert_count, indices) ==
  [e EXCEPT !.pending_sections =
     Map_insert(@, stream_id, <<required_insert_count, indices>>)]

\* Encoder::has_section
has_section(e, stream_id) == stream_id \in DOMAIN e.pending_sections

\* Encoder::ack_section: get(&stream_id).unwrap() panics on an unknown stream
Encoder_ack_section(e, stream_id) ==
  IF has_section(e, stream_id)
    THEN [err |-> NoError,
          e |-> [e EXCEPT !.pending_sections = Map_remove(@, stream_id)],
          section |-> e.pending_sections[stream_id][1],
          ids |-> e.pending_sections[stream_id][2]]
    ELSE [err |-> Panic, e |-> e, section |-> 0, ids |-> <<>>]

\* Encoder::cancel_section: the same unwrap()
Encoder_cancel_section(e, stream_id) ==
  IF has_section(e, stream_id)
    THEN [err |-> NoError,
          e |-> [e EXCEPT !.pending_sections = Map_remove(@, stream_id)],
          ids |-> e.pending_sections[stream_id][2]]
    ELSE [err |-> Panic, e |-> e, ids |-> <<>>]

----------------------------------------------------------------------------
(* transformer/decoder.rs: Decoder *)

\* Decoder::new; pending_sections: stream_id -> required_insert_count
Decoder_new == [current_blocked_streams |-> 0, pending_sections |-> EmptyMap]

\* Decoder::add_section
Decoder_add_section(d, stream_id, required_insert_count) ==
  [d EXCEPT !.pending_sections = Map_insert(@, stream_id, required_insert_count)]

\* Decoder::ack_section: get(&stream_id).unwrap() panics on an unknown stream
Decoder_ack_section(d, stream_id) ==
  IF stream_id \in DOMAIN d.pending_sections
    THEN [err |-> NoError,
          d |-> [d EXCEPT !.pending_sections = Map_remove(@, stream_id)],
          section |-> d.pending_sections[stream_id]]
    ELSE [err |-> Panic, d |-> d, section |-> 0]

\* Decoder::cancel_section
Decoder_cancel_section(d, stream_id) ==
  [d EXCEPT !.pending_sections = Map_remove(@, stream_id)]

----------------------------------------------------------------------------
(* Bytes: the bit operations the codecs use on u8 *)

RECURSIVE BitOr(_, _)
BitOr(a, b) ==
  IF a = 0 THEN b
  ELSE IF b = 0 THEN a
  ELSE (IF a % 2 = 1 \/ b % 2 = 1 THEN 1 ELSE 0) + 2 * BitOr(a \div 2, b \div 2)

RECURSIVE BitAnd(_, _)
BitAnd(a, b) ==
  IF a = 0 \/ b = 0 THEN 0
  ELSE (IF a % 2 = 1 /\ b % 2 = 1 THEN 1 ELSE 0) + 2 * BitAnd(a \div 2, b \div 2)

\* encoded[wire_len - len] |= bits, on the chunk that was just pushed
OrFirst(chunk, bits) == [chunk EXCEPT ![1] = BitOr(@, bits)]

\* wire[idx] & bits == bits
HasBits(wire, idx, bits) == BitAnd(wire[idx + 1], bits) = bits

\* bool as u8
B2U(b) == IF b THEN 1 ELSE 0

\* &wire[from..to]
Slice(wire, from, to) == [i \in 1..(to - from) |-> wire[from + i]]

----------------------------------------------------------------------------
(* lib.rs: FieldType; transformer/encoder.rs and decoder.rs: Instruction *)

FieldType_INDEXED == 128
FieldType_INDEXED_POST_BASE == 16
FieldType_REFER_NAME == 64
FieldType_REFER_NAME_POST_BASE == 0
FieldType_BOTH_LITERAL == 32

Enc_SET_DYNAMIC_TABLE_CAPACITY == 32
Enc_INSERT_REFER_NAME == 128
Enc_INSERT_BOTH_LITERAL == 64
Enc_DUPLICATE == 0

Dec_SECTION_ACKNOWLEDGMENT == 128
Dec_STREAM_CANCELLATION == 64

----------------------------------------------------------------------------
(* Strings on the wire *)

\* Encoder::pack_string for a string with huffman = false
pack_string(value, n) == Qnum_encode(Len(value), n) \o value

\* std::str::from_utf8 on bytes of the model's alphabet: ASCII passes
IsUtf8(bytes) == \A i \in 1..Len(bytes) : bytes[i] < 128

Utf8Error == "Utf8Error"
\* the H = 1 branch of parse_string hands the bytes to the Huffman transformer
HuffmanString == "HuffmanString"

\* Decoder::parse_string -> (len, value)
parse_string(wire, idx, n) ==
  LET bytes(len, from, to) ==
        IF to > Len(wire)
          THEN [err |-> Panic, len |-> 0, value |-> <<>>]
          ELSE IF ~IsUtf8(Slice(wire, from, to))
                 THEN [err |-> Utf8Error, len |-> 0, value |-> <<>>]
                 ELSE [err |-> NoError, len |-> len, value |-> Slice(wire, from, to)]
      string(q) ==
        IF q.err # NoError
          THEN [err |-> q.err, len |-> 0, value |-> <<>>]
          ELSE IF BitAnd(wire[idx + 1], Pow2(n)) > 0
                 THEN [err |-> HuffmanString, len |-> q.len + q.val, value |-> <<>>]
                 ELSE bytes(q.len + q.val, idx + q.len, idx + q.len + q.val)
  IN string(Qnum_decode(wire, idx, n))

----------------------------------------------------------------------------
(* Encoder stream: transformer/encoder.rs (encode), decoder.rs (decode) *)

\* Encoder::encode_set_dynamic_table_capacity
encode_set_dynamic_table_capacity(cap) ==
  OrFirst(Qnum_encode(cap, 5), Enc_SET_DYNAMIC_TABLE_CAPACITY)

\* Encoder::encode_insert_refer_name
encode_insert_refer_name(on_static, name_idx, value) ==
  OrFirst(Qnum_encode(name_idx, 6),
          BitOr(Enc_INSERT_REFER_NAME, B2U(on_static) * 64))
    \o pack_string(value, 7)

\* Encoder::encode_insert_both_literal
encode_insert_both_literal(header) ==
  OrFirst(pack_string(header.name, 5), Enc_INSERT_BOTH_LITERAL)
    \o pack_string(header.value, 7)

\* a Duplicate that always names the newest entry
encode_duplicate_newest(idx) == OrFirst(Qnum_encode(0, 5), Enc_DUPLICATE)

\* Encoder::encode_duplicate
encode_duplicate(idx) == OrFirst(Qnum_encode(idx, 5), Enc_DUPLICATE)

\* Decoder::decode_dynamic_table_capacity -> (len, cap)
decode_dynamic_table_capacity(wire, idx) == Qnum_decode(wire, idx, 5)

\* Decoder::decode_insert_refer_name -> (len, (name_idx, value, on_static))
decode_insert_refer_name(wire, idx) ==
  LET both(q, s) ==
        [err |-> IF q.err # NoError THEN q.err ELSE s.err, len |-> q.len + s.len,
         name_idx |-> q.val, value |-> s.value, on_static |-> HasBits(wire, idx, 64)]
      value(q) == both(q, parse_string(wire, idx + q.len, 7))
  IN value(Qnum_decode(wire, idx, 6))

\* Decoder::decode_insert_both_literal -> (len, header)
decode_insert_both_literal(wire, idx) ==
  LET both(a, b) ==
        [err |-> b.err, len |-> a.len + b.len, header |-> Header(a.value, b.value, FALSE)]
      value(a) ==
        both(a, IF a.err # NoError THEN a ELSE parse_string(wire, idx + a.len, 7))
  IN value(parse_string(wire, idx, 5))

\* Decoder::decode_duplicate -> (len, index)
decode_duplicate(wire, idx) == Qnum_decode(wire, idx, 5)

----------------------------------------------------------------------------
(* Decoder stream: transformer/decoder.rs (encode), encoder.rs (decode) *)

\* Decoder::encode_section_ackowledgment
encode_section_ackowledgment(stream_id) ==
  OrFirst(Qnum_encode(stream_id, 7), Dec_SECTION_ACKNOWLEDGMENT)

\* Decoder::encode_stream_cancellation
encode_stream_cancellation(stream_id) ==
  OrFirst(Qnum_encode(stream_id, 6), Dec_STREAM_CANCELLATION)

\* Decoder::encode_insert_count_increment
encode_insert_count_increment(increment) == Qnum_encode(increment, 6)

\* Encoder::decode_section_ackowledgment -> (len, stream_id)
decode_section_ackowledgment(wire, idx) == Qnum_decode(wire, idx, 7)

\* Encoder::decode_stream_cancellation -> (len, stream_id)
decode_stream_cancellation(wire, idx) == Qnum_decode(wire, idx, 6)

\* Encoder::decode_insert_count_increment -> (len, increment)
decode_insert_count_increment(wire, idx) == Qnum_decode(wire, idx, 6)

----------------------------------------------------------------------------
(* Field blocks: the prefix *)

\* Encoder::prefix; u32: % 0 and a negative difference panic
Encoder_prefix(t, required_insert_count, s_flag, base) ==
  LET bad(max_entries) ==
        \/ required_insert_count # 0 /\ max_entries = 0
        \/ s_flag /\ required_insert_count < base + 1
        \/ ~s_flag /\ base < required_insert_count
      encoded_insert_count(max_entries) ==
        IF required_insert_count = 0
          THEN required_insert_count
          ELSE (required_insert_count % (2 * max_entries)) + 1
      delta_base == IF s_flag THEN required_insert_count - base - 1
                    ELSE base - required_insert_count
      wire(max_entries) ==
        IF bad(max_entries)
          THEN [err |-> Panic, wire |-> <<>>]
          ELSE [err |-> NoError,
                wire |-> Qnum_encode(encoded_insert_count(max_entries), 8)
                           \o OrFirst(Qnum_encode(delta_base, 7), B2U(s_flag) * 128)]
  IN wire(get_max_entries(t))

\* the Encoded Insert Count read as a count that never wrapped
decode_required_insert_count_unwrapped(t, encoded_insert_count) ==
  [err |-> NoError,
   val |-> IF encoded_insert_count = 0 THEN 0 ELSE encoded_insert_count - 1]

\* the decoding of the Encoded Insert Count in Decoder::prefix (RFC 9204, 4.5.1.1)
decode_required_insert_count(t, encoded_insert_count) ==
  LET max_wrapped(max_value, full_range) ==
        IF full_range = 0 THEN 0 ELSE (max_value \div full_range) * full_range
      nonzero(requred_insert_count) ==
        IF requred_insert_count = 0
          THEN [err |-> DecompressionFailed, val |-> 0]
          ELSE [err |-> NoError, val |-> requred_insert_count]
      check(max_value, full_range, first) ==
        IF first > max_value
          THEN IF first <= full_range
                 THEN [err |-> DecompressionFailed, val |-> 0]
                 ELSE nonzero(first - full_range)
          ELSE nonzero(first)
      range(max_value, full_range) ==
        IF encoded_insert_count > full_range
          THEN [err |-> DecompressionFailed, val |-> 0]
          ELSE check(max_value, full_range,
                     max_wrapped(max_value, full_range) + encoded_insert_count - 1)
      entries(max_entries, total_number_of_inserts) ==
        range(total_number_of_inserts + max_entries, 2 * max_entries)
  IN IF encoded_insert_count = 0
       THEN [err |-> NoError, val |-> 0]
       ELSE entries(get_max_entries(t), t.insert_count)

\* Decoder::prefix -> (len, required_insert_count, base)
Decoder_prefix(t, wire, idx) ==
  LET none == [err |-> Panic, len |-> 0, required_insert_count |-> 0, base |-> 0]
      base(q1, r, q2, s_flag) ==
        IF q2.err # NoError THEN none
        ELSE IF s_flag /\ r.val < q2.val + 1 THEN none
        ELSE [err |-> NoError, len |-> q1.len + q2.len,
              required_insert_count |-> r.val,
              base |-> IF s_flag THEN r.val - q2.val - 1 ELSE r.val + q2.val]
      delta(q1, r) ==
        IF r.err # NoError THEN [none EXCEPT !.err = r.err]
        ELSE base(q1, r, Qnum_decode(wire, idx + q1.len, 7),
                  HasBits(wire, idx + q1.len, 128))
      count(q1) ==
        IF q1.err # NoError THEN none
        ELSE delta(q1, decode_required_insert_count(t, q1.val))
  IN count(Qnum_decode(wire, idx, 8))

----------------------------------------------------------------------------
(* Field blocks: the five representations *)

\* Encoder::encode_indexed
encode_indexed(idx, from_static) ==
  OrFirst(Qnum_encode(idx, 6), BitOr(FieldType_INDEXED, B2U(from_static) * 64))

\* Encoder::encode_indexed_post_base
encode_indexed_post_base(idx) ==
  OrFirst(Qnum_encode(idx, 4), FieldType_INDEXED_POST_BASE)

\* a name reference that never sets the N bit
encode_refer_name_plain(idx, header, from_static) ==
  OrFirst(Qnum_encode(idx, 4), BitOr(FieldType_REFER_NAME, B2U(from_static) * 16))
    \o pack_string(header.value, 7)

\* Encoder::encode_refer_name
encode_refer_name(idx, header, from_static) ==
  OrFirst(Qnum_encode(idx, 4),
          BitOr(FieldType_REFER_NAME,
                BitOr(B2U(from_static) * 16, B2U(header.sensitive) * 32)))
    \o pack_string(header.value, 7)

\* Encoder::encode_refer_name_post_base
encode_refer_name_post_base(idx, header) ==
  OrFirst(Qnum_encode(idx, 3),
          BitOr(FieldType_REFER_NAME_POST_BASE, B2U(header.sensitive) * 8))
    \o pack_string(header.value, 7)

\* Encoder::encode_both_literal
encode_both_literal(header) ==
  OrFirst(pack_string(header.name, 3),
          BitOr(FieldType_BOTH_LITERAL, B2U(header.sensitive) * 16))
    \o pack_string(header.value, 7)

NoHeader == Header(<<>>, <<>>, FALSE)
\* what one Decoder::decode_* call returns: the header, whether it came from
\* the dynamic table, and the bytes consumed
Decoded(err, len, header, ref_dynamic) ==
  [err |-> err, len |-> len, header |-> header, ref_dynamic |-> ref_dynamic]

\* the range check the decode_* functions make before a dynamic lookup
index_in_range(required_insert_count, table_idx) ==
  ~(required_insert_count <= table_idx)

\* Decoder::decode_indexed
decode_indexed(t, wire, idx, base, required_insert_count) ==
  LET found(q, h) ==
        IF h.err # NoError THEN Decoded(h.err, 0, NoHeader, FALSE)
        ELSE Decoded(NoError, q.len, h.header, ~HasBits(wire, idx, 64))
      lookup(from_static, q) ==
        IF q.err # NoError THEN Decoded(q.err, 0, NoHeader, FALSE)
        ELSE IF from_static THEN found(q, get_header_from_static(q.val))
        ELSE IF ~index_in_range(required_insert_count, q.val)
               THEN Decoded(DecompressionFailed, 0, NoHeader, FALSE)
        ELSE found(q, get_header_from_dynamic(t, base, q.val, FALSE))
  IN lookup(HasBits(wire, idx, 64), Qnum_decode(wire, idx, 6))

\* Decoder::decode_refer_name
decode_refer_name(t, wire, idx, base, required_insert_count) ==
  LET from_static == HasBits(wire, idx, 16)
      is_sensitive == HasBits(wire, idx, 32)
      valued(q, h, s) ==
        IF s.err # NoError THEN Decoded(s.err, 0, NoHeader, FALSE)
        ELSE Decoded(NoError, q.len + s.len,
                     Header(h.header.name, s.value, is_sensitive), ~from_static)
      found(q, h) ==
        IF h.err # NoError THEN Decoded(h.err, 0, NoHeader, FALSE)
        ELSE valued(q, h, parse_string(wire, idx + q.len, 7))
      lookup(q) ==
        IF q.err # NoError THEN Decoded(q.err, 0, NoHeader, FALSE)
        ELSE IF from_static THEN found(q, get_header_from_static(q.val))
        ELSE IF ~index_in_range(required_insert_count, q.val)
               THEN Decoded(DecompressionFailed, 0, NoHeader, FALSE)
        ELSE found(q, get_header_from_dynamic(t, base, q.val, FALSE))
  IN lookup(Qnum_decode(wire, idx, 4))

\* Decoder::decode_both_literal
decode_both_literal(wire, idx) ==
  LET both(a, b) ==
        IF b.err # NoError THEN Decoded(b.err, 0, NoHeader, FALSE)
        ELSE Decoded(NoError, a.len + b.len,
                     Header(a.value, b.value, HasBits(wire, idx, 16)), FALSE)
      value(a) ==
        both(a, IF a.err # NoError THEN a ELSE parse_string(wire, idx + a.len, 7))
  IN value(parse_string(wire, idx, 3))

\* Decoder::decode_indexed_post_base
decode_indexed_post_base(t, wire, idx, base, required_insert_count) ==
  LET found(q, h) ==
        IF h.err # NoError THEN Decoded(h.err, 0, NoHeader, FALSE)
        ELSE Decoded(NoError, q.len, h.header, TRUE)
      lookup(q) ==
        IF q.err # NoError THEN Decoded(q.err, 0, NoHeader, FALSE)
        ELSE IF ~index_in_range(required_insert_count, q.val)
               THEN Decoded(DecompressionFailed, 0, NoHeader, FALSE)
        ELSE found(q, get_header_from_dynamic(t, base, q.val, TRUE))
  IN lookup(Qnum_decode(wire, idx, 4))

\* Decoder::decode_refer_name_post_base
decode_refer_name_post_base(t, wire, idx, base, required_insert_count) ==
  LET is_sensitive == HasBits(wire, idx, 8)
      valued(q, h, s) ==
        IF s.err # NoError THEN Decoded(s.err, 0, NoHeader, FALSE)
        ELSE Decoded(NoError, q.len + s.len,
                     Header(h.header.name, s.value, is_sensitive), TRUE)
      found(q, h) ==
        IF h.err # NoError THEN Decoded(h.err, 0, NoHeader, FALSE)
        ELSE valued(q, h, parse_string(wire, idx + q.len, 7))
      lookup(q) ==
        IF q.err # NoError THEN Decoded(q.err, 0, NoHeader, FALSE)
        ELSE IF ~index_in_range(required_insert_count, q.val)
               THEN Decoded(DecompressionFailed, 0, NoHeader, FALSE)
        ELSE found(q, get_header_from_dynamic(t, base, q.val, TRUE))
  IN lookup(Qnum_decode(wire, idx, 3))

\* the dispatch on wire[idx] in the loop of Qpack::decode_headers
decode_field(t, wire, idx, base, required_insert_count) ==
  IF HasBits(wire, idx, FieldType_INDEXED)
    THEN decode_indexed(t, wire, idx, base, required_insert_count)
  ELSE IF HasBits(wire, idx, FieldType_REFER_NAME)
    THEN decode_refer_name(t, wire, idx, base, required_insert_count)
  ELSE IF HasBits(wire, idx, FieldType_BOTH_LITERAL)
    THEN decode_both_literal(wire, idx)
  ELSE IF HasBits(wire, idx, FieldType_INDEXED_POST_BASE)
    THEN decode_indexed_post_base(t, wire, idx, base, required_insert_count)
  ELSE IF BitAnd(wire[idx + 1], 240) = FieldType_REFER_NAME_POST_BASE
    THEN decode_refer_name_post_base(t, wire, idx, base, required_insert_count)
  ELSE Decoded(DecompressionFailed, 0, NoHeader, FALSE)

RECURSIVE decode_fields(_, _, _, _, _, _, _)
\* the loop of Qpack::decode_headers: while idx < wire_len
decode_fields(t, wire, idx, base, required_insert_count, headers, ref_dynamic) ==
  LET push(ret) ==
        IF ret.err # NoError
          THEN [err |-> ret.err, headers |-> <<>>, ref_dynamic |-> FALSE]
          ELSE decode_fields(t, wire, idx + ret.len, base, required_insert_count,
                             Append(headers, ret.header),
                             ref_dynamic \/ ret.ref_dynamic)
  IN IF idx < Len(wire)
       THEN push(decode_field(t, wire, idx, base, required_insert_count))
       ELSE [err |-> NoError, headers |-> headers, ref_dynamic |-> ref_dynamic]

----------------------------------------------------------------------------
(* lib.rs: Qpack, planning.  A Codec is [table, encoder, decoder]; a plan   *)
(* returns the bytes it appended and the CommitFunc closure, here the      *)
(* record of what the closure captured.                                    *)

Closure(kind, ops, stream_id, num, indices) ==
  [kind |-> kind, ops |-> ops, stream_id |-> stream_id, num |-> num,
   indices |-> indices]
NoClosure == Closure("none", <<>>, 0, 0, <<>>)
Planned(err, wire, closure) == [err |-> err, wire |-> wire, closure |-> closure]

\* Qpack::new
Qpack_new(blocked_streams_limit, dynamic_table_max_capacity) ==
  [table |-> DynamicTable_new(dynamic_table_max_capacity),
   encoder |-> Encoder_new, decoder |-> Decoder_new,
   blocked_streams_limit |-> blocked_streams_limit]

\* the body of the for loop of Qpack::encode_insert_headers, for one header:
\* the bytes of its instruction and the closure Table returns for it
encode_insert_header(t, header) ==
  LET instruction(c, wire) == [err |-> c.err, wire |-> wire, op |-> c.op]
      emit(both_match, on_static, idx) ==
        IF both_match /\ ~on_static
          THEN instruction(Table_duplicate(t, idx), encode_duplicate(idx))
          ELSE IF idx # NOT_FOUND
                 THEN instruction(Table_insert_refer_name(t, idx, header.value, on_static),
                                  encode_insert_refer_name(on_static, idx, header.value))
                 ELSE instruction(Table_insert_both_literal(header),
                                  encode_insert_both_literal(header))
      relative(found) ==
        emit(found[1], found[2],
             IF found[3] # NOT_FOUND /\ ~found[2]
               \* absolute to relative (against 0) conversion
               THEN t.insert_count - 1 - found[3]
               ELSE found[3])
  IN relative(find_header(t, header))

RECURSIVE encode_insert_headers_loop(_, _, _, _)
encode_insert_headers_loop(t, headers, wire, ops) ==
  LET push(r) ==
        IF r.err # NoError
          THEN Planned(r.err, wire \o r.wire, NoClosure)
          ELSE encode_insert_headers_loop(t, Tail(headers), wire \o r.wire,
                                          Append(ops, r.op))
  IN IF headers = <<>>
       THEN Planned(NoError, wire,
                    Closure("encode_insert_headers", ops, 0, Len(ops), <<>>))
       ELSE push(encode_insert_header(t, Head(headers)))

\* Qpack::encode_insert_headers
encode_insert_headers(q, headers) ==
  encode_insert_headers_loop(q.table, headers, <<>>, <<>>)

\* Qpack::encode_set_dynamic_table_capacity
Qpack_encode_set_dynamic_table_capacity(capacity) ==
  Planned(NoError, encode_set_dynamic_table_capacity(capacity),
          Closure("encode_set_dynamic_table_capacity", <<>>, 0, capacity, <<>>))

\* Qpack::encode_section_ackowledgment
Qpack_encode_section_ackowledgment(stream_id) ==
  Planned(NoError, encode_section_ackowledgment(stream_id),
          Closure("encode_section_ackowledgment", <<>>, stream_id, 0, <<>>))

\* Qpack::encode_stream_cancellation
Qpack_encode_stream_cancellation(stream_id) ==
  Planned(NoError, encode_stream_cancellation(stream_id),
          Closure("encode_stream_cancellation", <<>>, stream_id, 0, <<>>))

\* Qpack::encode_insert_count_increment; list.len() - known_received_count
\* on usize panics when the difference is negative
Qpack_encode_insert_count_increment(q) ==
  LET plan(increment) ==
        IF increment < 0
          THEN Planned(Panic, <<>>, NoClosure)
          ELSE Planned(NoError, encode_insert_count_increment(increment),
                       Closure("encode_insert_count_increment", <<>>, 0, increment, <<>>))
  IN plan(Len(q.table.list) - q.table.known_received_count)

\* the dynamic-table positions among the find results
DynamicHits(results) ==
  {results[i][3] : i \in {j \in DOMAIN results :
                            ~results[j][2] /\ results[j][3] # NOT_FOUND}}

SetMin(S) == CHOOSE x \in S : \A y \in S : x <= y
SetMax(S) == CHOOSE x \in S : \A y \in S : y <= x

\* get_prefix_meta_data without the evicted count in required_insert_count
get_prefix_meta_data_by_position(t, find_index_results, refer_dynamic_table) ==
  LET hits == DynamicHits(find_index_results)
      post_base == ((SetMin(hits) + SetMax(hits)) \div 2) < (Len(t.list) \div 2)
  IN IF ~refer_dynamic_table \/ hits = {}
       THEN <<0, FALSE, 0>>
       ELSE <<SetMax(hits) + 1, post_base,
              IF post_base THEN SetMin(hits) ELSE SetMax(hits) + 1>>

\* Qpack::get_prefix_meta_data -> (required_insert_count, post_base, base)
get_prefix_meta_data(t, find_index_results, refer_dynamic_table) ==
  LET meta(min, required_insert_count, post_base) ==
        <<required_insert_count, post_base,
          IF post_base THEN min ELSE required_insert_count>>
      \* evicted_count = insert_count - entry_len
      range(min, max, entry_len) ==
        meta(min, max + 1 + (t.insert_count - entry_len),
             ((min + max) \div 2) < (entry_len \div 2))
      min_max(hits) ==
        IF ~refer_dynamic_table \/ hits = {}
          THEN <<0, FALSE, 0>>
          ELSE range(SetMin(hits), SetMax(hits), Len(t.list))
  IN min_max(DynamicHits(find_index_results))

\* the representation Qpack::encode_headers emits for one header
encode_field(found, header, post_base, base) ==
  LET field(both_match, on_static, idx, bad) ==
        IF both_match /\ ~header.sensitive
          THEN IF on_static
                 THEN [err |-> NoError, wire |-> encode_indexed(idx, TRUE)]
                 ELSE IF bad THEN [err |-> Panic, wire |-> <<>>]
                 ELSE IF post_base
                        THEN [err |-> NoError,
                              wire |-> encode_indexed_post_base(idx - base)]
                        ELSE [err |-> NoError,
                              wire |-> encode_indexed(base - idx - 1, FALSE)]
          ELSE IF idx # NOT_FOUND
                 THEN IF on_static
                        THEN [err |-> NoError,
                              wire |-> encode_refer_name(idx, header, TRUE)]
                        ELSE IF bad THEN [err |-> Panic, wire |-> <<>>]
                        ELSE IF post_base
                               THEN [err |-> NoError,
                                     wire |-> encode_refer_name_post_base(idx - base,
                                                                          header)]
                               ELSE [err |-> NoError,
                                     wire |-> encode_refer_name(base - idx - 1, header,
                                                                FALSE)]
                 ELSE [err |-> NoError, wire |-> encode_both_literal(header)]
  IN field(found[1], found[2], found[3],
           \* idx as u32 - base, base - idx as u32 - 1 below zero
           ~found[2] /\ found[3] # NOT_FOUND
             /\ IF post_base THEN found[3] < base ELSE base < found[3] + 1)

RECURSIVE encode_fields(_, _, _, _, _, _, _)
\* the for loop of Qpack::encode_headers, from header i on
encode_fields(results, headers, i, post_base, base, wire, indices) ==
  LET next(r, pushed) ==
        IF r.err # NoError
          THEN [err |-> r.err, wire |-> wire, indices |-> pushed]
          ELSE encode_fields(results, headers, i + 1, post_base, base,
                             wire \o r.wire, pushed)
      one(found) ==
        next(encode_field(found, headers[i], post_base, base),
             IF ~found[2] /\ found[3] # NOT_FOUND
               THEN Append(indices, found[3]) ELSE indices)
  IN IF i > Len(headers)
       THEN [err |-> NoError, wire |-> wire, indices |-> indices]
       ELSE one(results[i])

\* Qpack::encode_headers
encode_headers(q, headers, stream_id) ==
  LET planned(meta, f) ==
        IF f.err # NoError THEN Planned(f.err, f.wire, NoClosure)
        ELSE Planned(NoError, f.wire,
                     Closure("encode_headers", <<>>, stream_id, meta[1], f.indices))
      fields(find_index_results, meta, p) ==
        IF p.err # NoError THEN Planned(p.err, <<>>, NoClosure)
        ELSE planned(meta, encode_fields(find_index_results, headers, 1, meta[2],
                                         meta[3], p.wire, <<>>))
      prefix(find_index_results, meta) ==
        fields(find_index_results, meta,
               Encoder_prefix(q.table, meta[1], meta[2], meta[3]))
      found(find_index_results) ==
        prefix(find_index_results,
               get_prefix_meta_data(q.table, find_index_results, TRUE))
  IN found(find_headers(q.table, headers))

\* one instruction of the loop of Qpack::decode_encoder_instruction
decode_encoder_instruction_at(t, wire, idx) ==
  LET closure(d, c) == [err |-> c.err, len |-> d.len, op |-> c.op]
      refer_name(d) ==
        IF d.err # NoError THEN [err |-> d.err, len |-> 0, op |-> OpInsert(NoEntry)]
        ELSE closure(d, Table_insert_refer_name(t, d.name_idx, d.value, d.on_static))
      both_literal(d) ==
        IF d.err # NoError THEN [err |-> d.err, len |-> 0, op |-> OpInsert(NoEntry)]
        ELSE closure(d, Table_insert_both_literal(d.header))
      capacity(d) ==
        [err |-> d.err, len |-> d.len, op |-> Table_set_dynamic_table_capacity(d.val).op]
      duplicate(d) ==
        IF d.err # NoError THEN [err |-> d.err, len |-> 0, op |-> OpInsert(NoEntry)]
        ELSE closure(d, Table_duplicate(t, d.val))
  IN IF HasBits(wire, idx, Enc_INSERT_REFER_NAME)
       THEN refer_name(decode_insert_refer_name(wire, idx))
     ELSE IF HasBits(wire, idx, Enc_INSERT_BOTH_LITERAL)
       THEN both_literal(decode_insert_both_literal(wire, idx))
     ELSE IF HasBits(wire, idx, Enc_SET_DYNAMIC_TABLE_CAPACITY)
       THEN capacity(decode_dynamic_table_capacity(wire, idx))
     ELSE duplicate(decode_duplicate(wire, idx))

RECURSIVE decode_encoder_instruction_loop(_, _, _, _)
decode_encoder_instruction_loop(t, wire, idx, ops) ==
  LET push(r) ==
        IF r.err # NoError
          THEN Planned(r.err, <<>>, NoClosure)
          ELSE decode_encoder_instruction_loop(t, wire, idx + r.len, Append(ops, r.op))
  IN IF idx < Len(wire)
       THEN push(decode_encoder_instruction_at(t, wire, idx))
       ELSE Planned(NoError, <<>>,
                    Closure("decode_encoder_instruction", ops, 0, 0, <<>>))

\* Qpack::decode_encoder_instruction
decode_encoder_instruction(q, wire) ==
  decode_encoder_instruction_loop(q.table, wire, 0, <<>>)

\* the check Qpack::decode_decoder_instruction makes on an Insert Count Increment
increment_is_valid(q, increment) ==
  ~(increment = 0
    \/ q.encoder.known_sending_count < q.table.known_received_count + increment)

\* one instruction of the loop of Qpack::decode_decoder_instruction
decode_decoder_instruction_at(q, wire, idx) ==
  LET ack(d) ==
        IF d.err # NoError THEN [err |-> d.err, len |-> 0, op |-> OpAck(0)]
        ELSE IF ~has_section(q.encoder, d.val)
               \* 4.4.1 section has already been acked
               THEN [err |-> DecoderStreamError, len |-> 0, op |-> OpAck(0)]
               ELSE [err |-> NoError, len |-> d.len, op |-> OpAck(d.val)]
      cancel(d) == [err |-> d.err, len |-> d.len, op |-> OpCancel(d.val)]
      increment(d) ==
        IF d.err # NoError THEN [err |-> d.err, len |-> 0, op |-> OpIncrement(0)]
        ELSE IF ~increment_is_valid(q, d.val)
               \* 4.4.3 invalid value
               THEN [err |-> DecoderStreamError, len |-> 0, op |-> OpIncrement(0)]
               ELSE [err |-> NoError, len |-> d.len, op |-> OpIncrement(d.val)]
  IN IF HasBits(wire, idx, Dec_SECTION_ACKNOWLEDGMENT)
       THEN ack(decode_section_ackowledgment(wire, idx))
     ELSE IF HasBits(wire, idx, Dec_STREAM_CANCELLATION)
       THEN cancel(decode_stream_cancellation(wire, idx))
     ELSE increment(decode_insert_count_increment(wire, idx))

RECURSIVE decode_decoder_instruction_loop(_, _, _, _)
decode_decoder_instruction_loop(q, wire, idx, ops) ==
  LET push(r) ==
        IF r.err # NoError
          THEN Planned(r.err, <<>>, NoClosure)
          ELSE decode_decoder_instruction_loop(q, wire, idx + r.len, Append(ops, r.op))
  IN IF idx < Len(wire)
       THEN push(decode_decoder_instruction_at(q, wire, idx))
       ELSE Planned(NoError, <<>>,
                    Closure("decode_decoder_instruction", ops, 0, 0, <<>>))

\* Qpack::decode_decoder_instruction
decode_decoder_instruction(q, wire) ==
  decode_decoder_instruction_loop(q, wire, 0, <<>>)

----------------------------------------------------------------------------
(* lib.rs: Qpack, committing.  Each operator is the body of one closure:   *)
(* the Codec it leaves and the error it returned, if any.  A `?` leaves    *)
(* the closure at the first failing operation with the earlier ones done.  *)

Done(q) == [err |-> NoError, q |-> q]
Fail(e, q) == [err |-> e, q |-> q]

\* one CommitFuncWithDynamicTable closure of Table, run on the locked table
run_table_op(q, op) ==
  LET on_table(r) == [err |-> r.err, q |-> [q EXCEPT !.table = r.t]]
      on_both(a, r) == [err |-> r.err, q |-> [q EXCEPT !.encoder = a.e, !.table = r.t]]
      \* Table::section_ackowledgment
      ack(a) ==
        IF a.err # NoError THEN Fail(a.err, q)
        ELSE on_both(a, DynamicTable_ack_section(q.table, a.section, a.ids))
      \* Table::stream_cancellation
      cancel(a) ==
        IF a.err # NoError THEN Fail(a.err, q)
        ELSE on_both(a, DynamicTable_cancel_section(q.table, a.ids))
  IN IF op.op = "insert"
       THEN on_table(insert_table_entry(q.table, op.entry))
     ELSE IF op.op = "set_capacity"
       THEN on_table(set_capacity(q.table, op.num))
     ELSE IF op.op = "insert_count_increment"
       \* Table::insert_count_increment
       THEN Done([q EXCEPT !.table.known_received_count = @ + op.num])
     ELSE IF op.op = "section_ackowledgment"
       THEN ack(Encoder_ack_section(q.encoder, op.stream_id))
     ELSE cancel(Encoder_cancel_section(q.encoder, op.stream_id))

RECURSIVE run_table_ops(_, _)
\* commit_funcs.into_iter().try_for_each(|f| f(&mut locked_table))
run_table_ops(q, ops) ==
  LET rest(r) == IF r.err # NoError THEN r ELSE run_table_ops(r.q, Tail(ops))
  IN IF ops = <<>> THEN Done(q) ELSE rest(run_table_op(q, Head(ops)))

RECURSIVE ref_entries(_, _)
\* dynamic_table_indices.iter().try_for_each(|idx| write_lock.ref_entry_at(*idx))
ref_entries(t, indices) ==
  LET rest(r) == IF r.err # NoError THEN r ELSE ref_entries(r.t, Tail(indices))
  IN IF indices = <<>> THEN Ok(t) ELSE rest(ref_entry_at(t, Head(indices)))

\* the closure of Qpack::encode_insert_headers
commit_encode_insert_headers(q, c) ==
  LET count(r) ==
        IF r.err # NoError THEN r
        ELSE Done([r.q EXCEPT !.encoder.known_sending_count = @ + c.num])
  IN count(run_table_ops(q, c.ops))

\* the closure of Qpack::encode_set_dynamic_table_capacity
commit_encode_set_dynamic_table_capacity(q, c) ==
  LET on_table(r) == [err |-> r.err, q |-> [q EXCEPT !.table = r.t]]
  IN on_table(set_capacity(q.table, c.num))

\* the closure of Qpack::encode_section_ackowledgment
commit_encode_section_ackowledgment(q, c) ==
  LET on_both(a, r) == [err |-> r.err, q |-> [q EXCEPT !.decoder = a.d, !.table = r.t]]
      ack(a) ==
        IF a.err # NoError THEN Fail(a.err, q)
        ELSE on_both(a, DynamicTable_ack_section(q.table, a.section, <<>>))
  IN ack(Decoder_ack_section(q.decoder, c.stream_id))

\* the closure of Qpack::encode_stream_cancellation
commit_encode_stream_cancellation(q, c) ==
  Done([q EXCEPT !.decoder = Decoder_cancel_section(@, c.stream_id)])

\* the closure of Qpack::encode_insert_count_increment
commit_encode_insert_count_increment(q, c) ==
  Done([q EXCEPT !.table.known_received_count = @ + c.num])

\* the closure of Qpack::encode_headers
commit_encode_headers(q, c) ==
  LET add(r) ==
        IF r.err # NoError
          THEN Fail(r.err, [q EXCEPT !.table = r.t])
          ELSE Done([q EXCEPT
                       !.table = r.t,
                       !.encoder = Encoder_add_section(@, c.stream_id, c.num,
                                                       c.indices)])
  IN IF 0 < Len(c.indices) THEN add(ref_entries(q.table, c.indices)) ELSE Done(q)

\* the closures of Qpack::decode_encoder_instruction and decode_decoder_instruction
commit_decode_instruction(q, c) == run_table_ops(q, c.ops)

\* invoking a CommitFunc
commit(q, c) ==
  IF c.kind = "encode_insert_headers" THEN commit_encode_insert_headers(q, c)
  ELSE IF c.kind = "encode_set_dynamic_table_capacity"
    THEN commit_encode_set_dynamic_table_capacity(q, c)
  ELSE IF c.kind = "encode_section_ackowledgment"
    THEN commit_encode_section_ackowledgment(q, c)
  ELSE IF c.kind = "encode_stream_cancellation"
    THEN commit_encode_stream_cancellation(q, c)
  ELSE IF c.kind = "encode_insert_count_increment"
    THEN commit_encode_insert_count_increment(q, c)
  ELSE IF c.kind = "encode_headers" THEN commit_encode_headers(q, c)
  ELSE commit_decode_instruction(q, c)

----------------------------------------------------------------------------
(* The state *)

Codecs == {"A", "B"}

Threads == {"t1", "t2"}

VARIABLES
  \* qp[c]: the Qpack object c: its table, encoder and decoder
  qp,
  \* poisoned[c]: a closure of c panicked while it held c's write locks
  poisoned,
  \* the outcome of the last call: [op, codec, phase, err]; phase is "plan"
  \* when the planning call returned the error, "commit" otherwise
  last,
  \* thr[t]: where thread t is in its decode_headers call on codec B
  thr,
  \* the owner of the Mutex of B's cv_insert_count: a thread, or NoThread
  mux,
  \* the thread of B that applies the encoder stream: whether it holds the
  \* write lock of the dynamic table, and the table closures it has left
  applier,
  \* the encoder-stream buffers on their way from A to B, oldest first
  estream,
  \* the field sections on their way from A to B
  sent,
  \* what the last decode_headers call of B returned
  got,
  \* the number of encoder-stream buffers A has produced
  emitted,
  \* a DynamicTable whose methods are called directly
  dt,
  \* the last direct call on dt: its method, argument, error and header
  direct,
  \* the headers of the successful inserts into dt, oldest first
  inserted,
  \* rw[l]: the thread that holds RwLock l for writing (or NoThread) and
  \* the threads that hold it for reading
  rw,
  \* run[t]: the lock operations thread t has left in its current call
  run

tableVars == <<qp, poisoned, last>>
blockVars == <<thr, mux, applier>>
wireVars == <<estream, sent, got, emitted>>
unitVars == <<dt, direct, inserted>>
lockVars == <<rw, run>>
vars ==
  <<qp, poisoned, last, thr, mux, applier, estream, sent, got, emitted,
    dt, direct, inserted, rw, run>>

Last(op, c, phase, err) == [op |-> op, codec |-> c, phase |-> phase, err |-> err]

----------------------------------------------------------------------------
(* The inputs the model draws from *)

\* the headers of this specification
Headers == {HdrAX, HdrAYY}

\* the header lists handed to encode_insert_headers and encode_headers
HeaderLists == {<<h>> : h \in Headers} \cup {<<g, h>> : g \in Headers, h \in Headers}

\* the capacities handed to encode_set_dynamic_table_capacity
Capacities == {0, Header_size(HdrAX.name, HdrAX.value), MaxCapacity, MaxCapacity + 1}

StreamIds == {4}

\* decoder-stream wires a peer may send: one instruction, or one instruction
\* followed by an Insert Count Increment
Increments == {encode_insert_count_increment(n) : n \in 0..2}
DecoderInstructions ==
  {encode_section_ackowledgment(s) : s \in StreamIds}
    \cup {encode_stream_cancellation(s) : s \in StreamIds}
    \cup Increments
DecoderWires ==
  DecoderInstructions \cup {a \o b : a \in DecoderInstructions, b \in Increments}

----------------------------------------------------------------------------
(* Spec: one Codec in the encoder role, driven by its host and by the      *)
(* decoder stream of a peer that may send anything.  As in the tests of    *)
(* lib.rs, the host invokes each closure right after planning it.          *)

\* a thread outside decode_headers
NoThread == "none"
IdleApplier == [pc |-> "idle", ops |-> <<>>]
\* a field section in flight: its bytes, and the headers and the number of
\* encoder-stream buffers A had produced when it was planned
Section(wire, headers, planned_at) ==
  [wire |-> wire, headers |-> headers, planned_at |-> planned_at]
NoSection == Section(<<>>, <<>>, 0)
IdleThread ==
  [pc |-> "idle", of |-> NoSection, wire |-> <<>>, stream_id |-> 0,
   required_insert_count |-> 0,
   base |-> 0, idx |-> 0, headers |-> <<>>, ref_dynamic |-> FALSE, err |-> NoError]
\* what decode_headers returned, for which section, and how many
\* encoder-stream buffers B had applied by then
Result(err, headers, ref_dynamic, of, applied) ==
  [err |-> err, headers |-> headers, ref_dynamic |-> ref_dynamic, of |-> of,
   applied |-> applied]
NoResult == Result(NoError, <<>>, FALSE, NoSection, 0)

\* a direct call on dt and what it returned
DirectCall(op, arg, err, header) ==
  [op |-> op, arg |-> arg, err |-> err, header |-> header]
NoCall == DirectCall("new", 0, NoError, Header(<<>>, <<>>, FALSE))

\* dt as DynamicTable::new leaves it
Untouched ==
  /\ dt = DynamicTable_new(MaxCapacity)
  /\ direct = NoCall
  /\ inserted = <<>>

\* the three RwLocks of a Qpack
RwLocks == {"dynamic_table", "encoder", "decoder"}

\* no lock is held and no thread is inside a call
Unlocked ==
  /\ rw = [l \in RwLocks |-> [writer |-> NoThread, readers |-> {}]]
  /\ run = [t \in Threads |-> <<>>]

\* nobody decodes and nothing is in flight
Quiet ==
  /\ thr = [t \in Threads |-> IdleThread]
  /\ mux = NoThread
  /\ applier = IdleApplier
  /\ estream = <<>>
  /\ sent = {}
  /\ got = NoResult
  /\ emitted = 0
  /\ Untouched
  /\ Unlocked

Init ==
  /\ qp = [c \in Codecs |-> Qpack_new(BlockedStreamsLimit, MaxCapacity)]
  /\ poisoned = [c \in Codecs |-> FALSE]
  /\ last = Last("new", "A", "commit", NoError)
  /\ Quiet

\* a planning call on c that returned p, and its closure invoked at once
Call(c, op, p) ==
  LET invoke(r) ==
        /\ qp' = [qp EXCEPT ![c] = r.q]
        /\ poisoned' = [poisoned EXCEPT ![c] = (r.err = Panic)]
        /\ last' = Last(op, c, "commit", r.err)
  IN /\ ~poisoned[c]
     /\ IF p.err # NoError
          THEN /\ last' = Last(op, c, "plan", p.err)
               /\ UNCHANGED <<qp, poisoned>>
          ELSE invoke(commit(qp[c], p.closure))
     /\ UNCHANGED <<blockVars, wireVars, unitVars, lockVars>>

SetCapacity(c) ==
  \E cap \in Capacities :
    Call(c, "encode_set_dynamic_table_capacity",
         Qpack_encode_set_dynamic_table_capacity(cap))

InsertHeaders(c) ==
  \E hs \in HeaderLists :
    /\ qp[c].table.insert_count + Len(hs) <= MaxInserts
    /\ Call(c, "encode_insert_headers", encode_insert_headers(qp[c], hs))

SendHeaders(c) ==
  \E hs \in HeaderLists, s \in StreamIds :
    /\ \A i \in 1..Len(qp[c].table.list) :
         qp[c].table.list[i].outstanding_count < MaxOutstanding
    /\ Call(c, "encode_headers", encode_headers(qp[c], hs, s))

RecvDecoderStream(c) ==
  \E wire \in DecoderWires :
    Call(c, "decode_decoder_instruction", decode_decoder_instruction(qp[c], wire))

\* a closure invoked although its host dropped it
drop_invoked(q, p) == IF p.err = NoError THEN commit(q, p.closure).q ELSE q

\* the codec after the host has dropped the closure of plan p without
\* invoking it: the planning call took &self and read locks only, and the
\* boxed closure owns nothing but clones of the Arcs
drop(q, p) == q

\* encoder-stream buffers a peer may send
EncoderWires(q) ==
  {Qpack_encode_set_dynamic_table_capacity(cap).wire : cap \in Capacities}
    \cup {encode_insert_headers(q, <<h>>).wire : h \in Headers}

\* the planning calls a host can make on q, each with what it returns
Plans(q) ==
  {<<"encode_set_dynamic_table_capacity",
     Qpack_encode_set_dynamic_table_capacity(cap)>> : cap \in Capacities}
    \cup {<<"encode_insert_headers", encode_insert_headers(q, hs)>> :
            hs \in HeaderLists}
    \cup {<<"encode_headers", encode_headers(q, hs, s)>> :
            hs \in HeaderLists, s \in StreamIds}
    \cup {<<"encode_section_ackowledgment",
            Qpack_encode_section_ackowledgment(s)>> : s \in StreamIds}
    \cup {<<"encode_stream_cancellation",
            Qpack_encode_stream_cancellation(s)>> : s \in StreamIds}
    \cup {<<"encode_insert_count_increment",
            Qpack_encode_insert_count_increment(q)>>}
    \cup {<<"decode_encoder_instruction", decode_encoder_instruction(q, w)>> :
            w \in EncoderWires(q)}
    \cup {<<"decode_decoder_instruction", decode_decoder_instruction(q, w)>> :
            w \in DecoderWires}

\* a planning call on c whose closure the host drops
PlanOnly(c) ==
  \E pl \in Plans(qp[c]) :
    /\ ~poisoned[c]
    /\ pl[2].err # Panic
    /\ qp' = [qp EXCEPT ![c] = drop(qp[c], pl[2])]
    /\ last' = Last(pl[1], c, "dropped", pl[2].err)
    /\ UNCHANGED <<poisoned, blockVars, wireVars, unitVars, lockVars>>

Next ==
  \/ SetCapacity("A")
  \/ InsertHeaders("A")
  \/ SendHeaders("A")
  \/ RecvDecoderStream("A")

Spec == Init /\ [][Next]_vars

----------------------------------------------------------------------------
(* Properties of the dynamic table, checked under Spec *)

\* the entries of t a step evicted: the first n of its list, n being the
\* growth of eviction_count, less those inserted and evicted in the same call
EvictedIn(t, t_next) ==
  LET n == Min(t_next.eviction_count - t.eviction_count, Len(t.list))
  IN {t.list[i] : i \in 1..n}

\* C1: no call (an insert or a set_capacity) evicts an entry whose
\* outstanding_count is greater than zero.
C1_NoEvictionWhileReferenced ==
  [][\A c \in Codecs :
       \A e \in EvictedIn(qp[c].table, qp[c].table') : e.outstanding_count = 0]_vars

\* C2: a call evicts only entries whose absolute index is below
\* known_received_count: after a step that evicted, eviction_count (one more
\* than the last evicted absolute index) is at most known_received_count.
C2_EvictsOnlyAcknowledged ==
  [][\A c \in Codecs :
       qp[c].table'.eviction_count > qp[c].table.eviction_count
         => qp[c].table'.eviction_count <= qp[c].table.known_received_count]_vars

\* C3: in every reachable state 0 <= known_received_count <= insert_count.
C3_KnownReceivedWithinInserts ==
  \A c \in Codecs :
    /\ 0 <= qp[c].table.known_received_count
    /\ qp[c].table.known_received_count <= qp[c].table.insert_count

\* C4: in every reachable state, after successful and failing set_capacity,
\* insert and duplicate calls alike, current_size <= capacity <= max_capacity.
C4_SizeWithinCapacity ==
  \A c \in Codecs :
    /\ qp[c].table.current_size <= qp[c].table.capacity
    /\ qp[c].table.capacity <= qp[c].table.max_capacity

\* an insert has just failed on a table that holds an entry, has evicted
\* before and is not at its maximum capacity
C4_Witness ==
  /\ last.op = "encode_insert_headers"
  /\ last.phase = "commit"
  /\ last.err = EncoderStreamError
  /\ qp["A"].table.current_size > 0
  /\ qp["A"].table.eviction_count > 0
  /\ qp["A"].table.capacity < qp["A"].table.max_capacity

----------------------------------------------------------------------------
(* SpecBlock: codec B decodes field sections on two threads while a third  *)
(* thread applies the encoder stream.  Every step is one critical section  *)
(* of lib.rs: a read or a write of an RwLock, or a hold of the Mutex of    *)
(* cv_insert_count.  The dynamic table's write lock is held for a whole    *)
(* closure (applier.pc = "locked") and keeps the readers of the table out. *)

B == "B"

\* what codec A did before: a capacity, then two inserts, each in a buffer of
\* its own, and the field sections it planned in between
ScriptCap == Qpack_encode_set_dynamic_table_capacity(MaxCapacity)
ScriptA1 == commit(Qpack_new(BlockedStreamsLimit, MaxCapacity), ScriptCap.closure).q
ScriptIns1 == encode_insert_headers(ScriptA1, <<HdrAX>>)
ScriptA2 == commit(ScriptA1, ScriptIns1.closure).q
ScriptIns2 == encode_insert_headers(ScriptA2, <<HdrAYY>>)
ScriptA3 == commit(ScriptA2, ScriptIns2.closure).q
ScriptStream == <<ScriptCap.wire, ScriptIns1.wire, ScriptIns2.wire>>

ScriptSections ==
  {Section(encode_headers(ScriptA1, <<HdrPath>>, 4).wire, <<HdrPath>>, 1),
   Section(encode_headers(ScriptA2, <<HdrAX>>, 4).wire, <<HdrAX>>, 2),
   Section(encode_headers(ScriptA3, <<HdrAYY, HdrAX>>, 4).wire, <<HdrAYY, HdrAX>>, 3)}

\* the stream each thread decodes for
StreamOf(t) == IF t = "t1" THEN 4 ELSE 8

InitBlock ==
  /\ qp = [c \in Codecs |->
             IF c = "A" THEN ScriptA3 ELSE Qpack_new(BlockedStreamsLimit, MaxCapacity)]
  /\ poisoned = [c \in Codecs |-> FALSE]
  /\ last = Last("new", B, "commit", NoError)
  /\ thr = [t \in Threads |-> IdleThread]
  /\ mux = NoThread
  /\ applier = IdleApplier
  /\ estream = ScriptStream
  /\ sent = ScriptSections
  /\ got = NoResult
  /\ emitted = Len(ScriptStream)
  /\ Untouched
  /\ Unlocked

\* the test of Qpack::block_decoding against blocked_streams_limit, too late by one
blocked_streams_exceeded_late(limit, current_blocked_streams) ==
  limit < current_blocked_streams

\* the test of Qpack::block_decoding against blocked_streams_limit
blocked_streams_exceeded(limit, current_blocked_streams) ==
  limit < current_blocked_streams + 1

\* a notify_all that wakes nobody
notify_none(th) == th

\* Condvar::notify_all: every thread in wait is woken and will take the Mutex
notify_all(th) ==
  [t \in DOMAIN th |->
     IF th[t].pc = "waiting" THEN [th[t] EXCEPT !.pc = "woken"] ELSE th[t]]

\* decode_headers: Decoder::prefix, which reads the table
decode_headers_prefix(t) ==
  /\ thr[t].pc = "idle"
  /\ applier.pc # "locked"
  /\ \E s \in sent :
       LET call(p) ==
             IF p.err # NoError
               THEN [IdleThread EXCEPT !.of = s, !.wire = s.wire,
                                       !.stream_id = StreamOf(t),
                                       !.pc = "failed", !.err = p.err]
               ELSE [IdleThread EXCEPT !.of = s, !.wire = s.wire,
                                       !.stream_id = StreamOf(t),
                                       !.pc = "prefix", !.idx = p.len,
                                       !.required_insert_count = p.required_insert_count,
                                       !.base = p.base]
       IN thr' = [thr EXCEPT ![t] = call(Decoder_prefix(qp[B].table, s.wire, 0))]
  /\ UNCHANGED <<tableVars, mux, applier, wireVars, unitVars, lockVars>>

\* decode_headers: let insert_count = self.table.get_insert_count() and the
\* comparison with required_insert_count
decode_headers_insert_count(t) ==
  /\ thr[t].pc = "prefix"
  /\ applier.pc # "locked"
  /\ mux = NoThread
  /\ thr' = [thr EXCEPT ![t].pc =
               IF qp[B].table.insert_count < thr[t].required_insert_count
                 THEN "block_check" ELSE "fields"]
  /\ UNCHANGED <<tableVars, mux, applier, wireVars, unitVars, lockVars>>

\* block_decoding: the test of the limit, under the read lock of the decoder
block_decoding_check(t) ==
  /\ thr[t].pc = "block_check"
  /\ thr' = [thr EXCEPT ![t] =
               IF blocked_streams_exceeded(qp[B].blocked_streams_limit,
                                           qp[B].decoder.current_blocked_streams)
                 THEN [@ EXCEPT !.pc = "failed", !.err = DecompressionFailed]
                 ELSE [@ EXCEPT !.pc = "block_incr"]]
  /\ UNCHANGED <<tableVars, mux, applier, wireVars, unitVars, lockVars>>

\* block_decoding: current_blocked_streams += 1, under the write lock
block_decoding_increment(t) ==
  /\ thr[t].pc = "block_incr"
  /\ qp' = [qp EXCEPT ![B].decoder.current_blocked_streams = @ + 1]
  /\ thr' = [thr EXCEPT ![t].pc = "block_lock"]
  /\ UNCHANGED <<poisoned, last, mux, applier, wireVars, unitVars, lockVars>>

\* block_decoding: mux.lock()
block_decoding_lock(t) ==
  /\ thr[t].pc = "block_lock"
  /\ mux = NoThread
  /\ mux' = t
  /\ thr' = [thr EXCEPT ![t].pc = "block_wait"]
  /\ UNCHANGED <<tableVars, applier, wireVars, unitVars, lockVars>>

\* block_decoding: cv.wait_while with the Mutex held: the predicate, then
\* either the wait, which gives the Mutex up, or the return, which drops it
block_decoding_wait_while(t) ==
  /\ thr[t].pc = "block_wait"
  /\ mux = t
  /\ mux' = NoThread
  /\ thr' = [thr EXCEPT ![t].pc =
               IF qp[B].table.insert_count < thr[t].required_insert_count
                 THEN "waiting" ELSE "fields"]
  /\ UNCHANGED <<tableVars, applier, wireVars, unitVars, lockVars>>

\* a woken thread takes the Mutex again to test the predicate
condvar_wake(t) ==
  /\ thr[t].pc = "woken"
  /\ mux = NoThread
  /\ mux' = t
  /\ thr' = [thr EXCEPT ![t].pc = "block_wait"]
  /\ UNCHANGED <<tableVars, applier, wireVars, unitVars, lockVars>>

\* Condvar::wait may return without a notification
spurious_wakeup(t) ==
  /\ thr[t].pc = "waiting"
  /\ thr' = [thr EXCEPT ![t].pc = "woken"]
  /\ UNCHANGED <<tableVars, mux, applier, wireVars, unitVars, lockVars>>

\* decode_headers: one round of the loop over the field lines
decode_headers_field(t) ==
  /\ thr[t].pc = "fields"
  /\ thr[t].idx < Len(thr[t].wire)
  /\ applier.pc # "locked"
  /\ LET push(ret) ==
           IF ret.err # NoError
             THEN [thr[t] EXCEPT !.pc = "failed", !.err = ret.err]
             ELSE [thr[t] EXCEPT !.idx = @ + ret.len,
                                 !.headers = Append(@, ret.header),
                                 !.ref_dynamic = @ \/ ret.ref_dynamic]
     IN thr' = [thr EXCEPT ![t] =
                  push(decode_field(qp[B].table, thr[t].wire, thr[t].idx, thr[t].base,
                                    thr[t].required_insert_count))]
  /\ UNCHANGED <<tableVars, mux, applier, wireVars, unitVars, lockVars>>

\* decode_headers: after the loop, add_section when required_insert_count != 0
decode_headers_add_section(t) ==
  /\ thr[t].pc = "fields"
  /\ thr[t].idx >= Len(thr[t].wire)
  /\ qp' = [qp EXCEPT ![B].decoder =
              IF thr[t].required_insert_count # 0
                THEN Decoder_add_section(@, thr[t].stream_id,
                                         thr[t].required_insert_count)
                ELSE @]
  /\ thr' = [thr EXCEPT ![t].pc = "done"]
  /\ UNCHANGED <<poisoned, last, mux, applier, wireVars, unitVars, lockVars>>

\* decode_headers returns to its caller
decode_headers_return(t) ==
  /\ thr[t].pc \in {"done", "failed"}
  /\ got' = Result(thr[t].err, thr[t].headers, thr[t].ref_dynamic, thr[t].of,
                   emitted - Len(estream))
  /\ last' = Last("decode_headers", B, "return", thr[t].err)
  /\ thr' = [thr EXCEPT ![t] = IdleThread]
  /\ UNCHANGED <<qp, poisoned, mux, applier, estream, sent, emitted, unitVars, lockVars>>

\* decode_encoder_instruction on the oldest buffer, and its closure taking
\* the write lock of the dynamic table
apply_begin ==
  /\ applier.pc = "idle"
  /\ estream # <<>>
  /\ ~poisoned[B]
  /\ estream' = Tail(estream)
  /\ LET planned(p) ==
           IF p.err # NoError
             THEN /\ last' = Last("decode_encoder_instruction", B, "plan", p.err)
                  /\ UNCHANGED applier
             ELSE /\ applier' = [pc |-> "locked", ops |-> p.closure.ops]
                  /\ UNCHANGED last
     IN planned(decode_encoder_instruction(qp[B], Head(estream)))
  /\ UNCHANGED <<qp, poisoned, thr, mux, sent, got, emitted, unitVars, lockVars>>

\* the closure runs its next table closure; an insert takes the Mutex for
\* increment_insert_count, which ends with notify_all
apply_op ==
  /\ applier.pc = "locked"
  /\ applier.ops # <<>>
  /\ mux = NoThread
  /\ LET ran(r) ==
           /\ qp' = [qp EXCEPT ![B] = r.q]
           /\ thr' = IF r.q.table.insert_count > qp[B].table.insert_count
                       THEN notify_all(thr) ELSE thr
           /\ IF r.err # NoError
                THEN /\ applier' = IdleApplier
                     /\ poisoned' = [poisoned EXCEPT ![B] = (r.err = Panic)]
                     /\ last' = Last("decode_encoder_instruction", B, "commit", r.err)
                ELSE /\ applier' = [applier EXCEPT !.ops = Tail(@)]
                     /\ UNCHANGED <<poisoned, last>>
     IN ran(run_table_op(qp[B], Head(applier.ops)))
  /\ UNCHANGED <<mux, wireVars, unitVars, lockVars>>

\* the closure returns Ok and drops the write lock
apply_end ==
  /\ applier.pc = "locked"
  /\ applier.ops = <<>>
  /\ applier' = IdleApplier
  /\ last' = Last("decode_encoder_instruction", B, "commit", NoError)
  /\ UNCHANGED <<qp, poisoned, thr, mux, wireVars, unitVars, lockVars>>

NextBlock ==
  \/ \E t \in Threads : decode_headers_prefix(t)
  \/ \E t \in Threads : decode_headers_insert_count(t)
  \/ \E t \in Threads : block_decoding_check(t)
  \/ \E t \in Threads : block_decoding_increment(t)
  \/ \E t \in Threads : block_decoding_lock(t)
  \/ \E t \in Threads : block_decoding_wait_while(t)
  \/ \E t \in Threads : condvar_wake(t)
  \/ \E t \in Threads : spurious_wakeup(t)
  \/ \E t \in Threads : decode_headers_field(t)
  \/ \E t \in Threads : decode_headers_add_section(t)
  \/ \E t \in Threads : decode_headers_return(t)
  \/ apply_begin
  \/ apply_op
  \/ apply_end

SpecBlock == InitBlock /\ [][NextBlock]_vars

\* fair scheduling of a suspended call: a woken thread gets the Mutex if it
\* is free again and again, and a thread that holds it tests its predicate
SpecBlockFair ==
  /\ SpecBlock
  /\ \A t \in Threads :
       SF_vars(condvar_wake(t)) /\ WF_vars(block_decoding_wait_while(t))

----------------------------------------------------------------------------
(* Properties of blocked decoding, checked under SpecBlock and SpecBlockFair *)

current_blocked_streams == qp[B].decoder.current_blocked_streams

\* thread t is suspended in block_decoding: in the wait, or woken from it
\* and not yet through the predicate
Suspended(t) == thr[t].pc \in {"waiting", "woken"}

\* C5: with decode_headers running on several threads,
\* current_blocked_streams never exceeds blocked_streams_limit.
C5_BlockedWithinLimit ==
  current_blocked_streams <= qp[B].blocked_streams_limit

\* C6: current_blocked_streams counts the calls that are suspended: once
\* every decode_headers call has returned it is 0 again.
C6_BlockedCountReturnsToZero ==
  (\A t \in Threads : thr[t].pc = "idle") => current_blocked_streams = 0

C8_SuspendedCallResumes ==
  \A t \in Threads :
    (Suspended(t) /\ qp[B].table.insert_count >= thr[t].required_insert_count)
      ~> (thr[t].pc = "fields")

\* a suspended call has been notified by the insert that satisfied it
C8_Witness ==
  \E t \in Threads :
    /\ thr[t].pc = "woken"
    /\ thr[t].required_insert_count = 2
    /\ qp[B].table.insert_count = 2


\* ---------------------------------------------------------------------
\* Two codecs of one connection: A encodes, B decodes.  A's encoder
\* stream reaches B in order through estream; A's field sections reach B
\* in any order relative to it.  A call that fails closes the connection,
\* so the actions of A below are those whose plan and commit succeed.
\* ---------------------------------------------------------------------

\* how many encoder-stream buffers may wait for B, and how many A produces
MaxEStream == 2
MaxEmitted == 4

PairHeaders == {HdrAX, HdrAYY, Sensitive(HdrAX), HdrPath, HdrPathX, HdrBY}
PairHeaderLists ==
  {<<h>> : h \in PairHeaders} \cup {<<g, h>> : g \in Headers, h \in Headers}
    \cup {<<Sensitive(HdrPath)>>, <<HdrAYY, Sensitive(HdrAX)>>}

\* the call would enter block_decoding
Blocked == "Blocked"

\* Qpack::decode_headers when the call does not have to wait
decode_headers(q, wire, stream_id) ==
  LET ret(err, headers, ref_dynamic, q2) ==
        [err |-> err, headers |-> headers, ref_dynamic |-> ref_dynamic, q |-> q2]
      section(p, f) ==
        IF f.err # NoError THEN ret(f.err, <<>>, FALSE, q)
        ELSE ret(NoError, f.headers, f.ref_dynamic,
                 IF p.required_insert_count # 0
                   THEN [q EXCEPT !.decoder =
                           Decoder_add_section(@, stream_id, p.required_insert_count)]
                   ELSE q)
      fields(p) ==
        IF p.err # NoError THEN ret(p.err, <<>>, FALSE, q)
        ELSE IF q.table.insert_count < p.required_insert_count
          THEN ret(Blocked, <<>>, FALSE, q)
        ELSE section(p, decode_fields(q.table, wire, p.len, p.base,
                                      p.required_insert_count, <<>>, FALSE))
  IN fields(Decoder_prefix(q.table, wire, 0))

InitPair ==
  /\ qp = [c \in Codecs |-> Qpack_new(BlockedStreamsLimit, MaxCapacity)]
  /\ poisoned = [c \in Codecs |-> FALSE]
  /\ last = Last("new", "A", "commit", NoError)
  /\ Quiet

\* a call of A that succeeds and writes wire to the encoder stream
PairEmit(op, p) ==
  LET invoke(r) ==
        /\ r.err = NoError
        /\ qp' = [qp EXCEPT !["A"] = r.q]
        /\ last' = Last(op, "A", "commit", NoError)
  IN /\ got.of = NoSection
     /\ Len(estream) < MaxEStream
     /\ emitted < MaxEmitted
     /\ p.err = NoError
     /\ invoke(commit(qp["A"], p.closure))
     /\ estream' = Append(estream, p.wire)
     /\ emitted' = emitted + 1
     /\ UNCHANGED <<poisoned, blockVars, sent, got, unitVars, lockVars>>

PairSetCapacity ==
  \E cap \in Capacities :
    PairEmit("encode_set_dynamic_table_capacity",
             Qpack_encode_set_dynamic_table_capacity(cap))

PairInsertHeaders ==
  \E hs \in HeaderLists :
    /\ qp["A"].table.insert_count + Len(hs) <= MaxInserts
    /\ PairEmit("encode_insert_headers", encode_insert_headers(qp["A"], hs))

\* A plans and commits a field section, one in flight at a time
PairSendHeaders ==
  \E hs \in PairHeaderLists, s \in StreamIds :
    LET invoke(p, r) ==
          /\ r.err = NoError
          /\ qp' = [qp EXCEPT !["A"] = r.q]
          /\ last' = Last("encode_headers", "A", "commit", NoError)
          /\ sent' = {Section(p.wire, hs, emitted)}
        plan(p) ==
          /\ p.err = NoError
          /\ invoke(p, commit(qp["A"], p.closure))
    IN /\ got.of = NoSection
       /\ sent = {}
       /\ \A i \in 1..Len(qp["A"].table.list) :
            qp["A"].table.list[i].outstanding_count < MaxOutstanding
       /\ plan(encode_headers(qp["A"], hs, s))
       /\ UNCHANGED <<poisoned, blockVars, estream, got, emitted, unitVars, lockVars>>

\* B applies the oldest buffer of the encoder stream; an error stops B
PairApply ==
  LET invoke(r) ==
        /\ qp' = [qp EXCEPT ![B] = r.q]
        /\ applier' = IF r.err = NoError THEN applier
                      ELSE [applier EXCEPT !.pc = "failed"]
        /\ last' = Last("decode_encoder_instruction", B, "commit", r.err)
      plan(p) ==
        IF p.err # NoError
          THEN /\ applier' = [applier EXCEPT !.pc = "failed"]
               /\ last' = Last("decode_encoder_instruction", B, "plan", p.err)
               /\ UNCHANGED qp
          ELSE invoke(commit(qp[B], p.closure))
  IN /\ got.of = NoSection
     /\ estream # <<>>
     /\ applier.pc = "idle"
     /\ plan(decode_encoder_instruction(qp[B], Head(estream)))
     /\ estream' = Tail(estream)
     /\ UNCHANGED <<poisoned, thr, mux, sent, got, emitted, unitVars, lockVars>>

\* B decodes the section in flight, at a moment when the call need not wait
PairDecode ==
  \E s \in sent, id \in StreamIds :
    LET return(r) ==
          /\ r.err # Blocked
          /\ qp' = [qp EXCEPT ![B] = r.q]
          /\ got' = Result(r.err, r.headers, r.ref_dynamic, s,
                           emitted - Len(estream))
          /\ last' = Last("decode_headers", B, "return", r.err)
    IN /\ got.of = NoSection
       /\ applier.pc = "idle"
       /\ return(decode_headers(qp[B], s.wire, id))
       /\ sent' = sent \ {s}
       /\ UNCHANGED <<poisoned, blockVars, estream, emitted, unitVars, lockVars>>

\* the connection is followed up to the first result of decode_headers
\* B reports the entries it holds with an Insert Count Increment, which A
\* reads at once from the decoder stream
PairAcknowledge ==
  LET receive(b, a) ==
        /\ b.err = NoError
        /\ a.err = NoError
        /\ qp' = [qp EXCEPT ![B] = b.q, !["A"] = a.q]
        /\ last' = Last("decode_decoder_instruction", "A", "commit", NoError)
      read(p, d) ==
        /\ d.err = NoError
        /\ receive(commit(qp[B], p.closure), commit(qp["A"], d.closure))
      write(p) ==
        /\ p.err = NoError
        /\ read(p, decode_decoder_instruction(qp["A"], p.wire))
  IN /\ got.of = NoSection
     /\ applier.pc = "idle"
     /\ write(Qpack_encode_insert_count_increment(qp[B]))
     /\ UNCHANGED <<poisoned, blockVars, wireVars, unitVars, lockVars>>

NextPair ==
  \/ PairSetCapacity
  \/ PairInsertHeaders
  \/ PairSendHeaders
  \/ PairApply
  \/ PairAcknowledge
  \/ PairDecode

SpecPair == InitPair /\ [][NextPair]_vars

\* The same connection when A's step evicts only entries that B has
\* acknowledged and that no field section in flight refers to
EvictsOnlyFree ==
  \A i \in 1..(qp'["A"].table.eviction_count - qp["A"].table.eviction_count) :
    /\ i <= Len(qp["A"].table.list)
    /\ qp["A"].table.list[i].outstanding_count = 0
    /\ qp["A"].table.eviction_count + i <= qp["A"].table.known_received_count

StrictSetCapacity == PairSetCapacity /\ EvictsOnlyFree
StrictInsertHeaders == PairInsertHeaders /\ EvictsOnlyFree

NextPairStrict ==
  \/ StrictSetCapacity
  \/ StrictInsertHeaders
  \/ PairSendHeaders
  \/ PairApply
  \/ PairAcknowledge
  \/ PairDecode

SpecPairStrict == InitPair /\ [][NextPairStrict]_vars

C10_AnyInterleavingRecovers ==
  got.of # NoSection => (got.err = NoError /\ got.headers = got.of.headers)

\* B never fails to apply what A applied
PairApplyNeverFails == applier.pc # "failed"

----------------------------------------------------------------------------
(* Sensitive headers *)

\* C11: a header marked sensitive is never planned as an Indexed or an
\* Indexed-Post-Base field, even when the static or the dynamic table holds
\* its exact (name, value): the first field of a planned section whose first
\* header is sensitive is a literal form with its N bit set, and every
\* sensitive header of a section that B decoded is returned marked sensitive
C11_SensitiveNeverIndexed ==
  LET literal_with_n(b) ==
        \/ 64 <= b /\ b < 128 /\ BitAnd(b, 32) = 32
        \/ 32 <= b /\ b < 64 /\ BitAnd(b, 16) = 16
        \/ b < 16 /\ BitAnd(b, 8) = 8
      first(wire, len1) == wire[len1 + Qnum_decode(wire, len1, 7).len + 1]
  IN /\ \A s \in sent :
          s.headers[1].sensitive
            => literal_with_n(first(s.wire, Qnum_decode(s.wire, 0, 8).len))
     /\ (got.of # NoSection /\ got.err = NoError)
          => /\ Len(got.headers) = Len(got.of.headers)
             /\ \A i \in 1..Len(got.headers) :
                  got.of.headers[i].sensitive => got.headers[i].sensitive

\* B, in step with A, returns a sensitive (a, x) while its dynamic table
\* holds (a, x)
C11_Witness ==
  /\ got.of.headers = <<Sensitive(HdrAX)>>
  /\ got.applied = got.of.planned_at
  /\ got.err = NoError
  /\ got.ref_dynamic
  /\ got.headers = <<Sensitive(HdrAX)>>
  /\ \E i \in 1..Len(qp[B].table.list) :
       /\ qp[B].table.list[i].name = HdrAX.name
       /\ qp[B].table.list[i].value = HdrAX.value

----------------------------------------------------------------------------
(* The DynamicTable by itself, its methods called directly as the unit     *)
(* tests of table/dynamic_table.rs and the commit closures do.             *)

TableHeaders == {HdrAX, HdrAYY, HdrBY}

InitTable ==
  /\ qp = [c \in Codecs |-> Qpack_new(BlockedStreamsLimit, MaxCapacity)]
  /\ poisoned = [c \in Codecs |-> FALSE]
  /\ last = Last("new", "A", "commit", NoError)
  /\ Quiet

\* a direct call returns r; a panic ends the run
Direct(op, arg, r, header) ==
  /\ direct.err # Panic
  /\ dt' = r.t
  /\ direct' = DirectCall(op, arg, r.err, header)

\* table.set_capacity(cap)
Table_set_capacity ==
  \E cap \in Capacities :
    /\ Direct("set_capacity", cap, set_capacity(dt, cap), NoHeader)
    /\ UNCHANGED <<tableVars, blockVars, wireVars, inserted, lockVars>>

\* table.insert_header(header)
Table_insert_header ==
  \E h \in TableHeaders :
    LET insert(r) ==
          /\ Direct("insert_header", Header_size(h.name, h.value), r, h)
          /\ inserted' = IF r.err = NoError THEN Append(inserted, h) ELSE inserted
    IN /\ dt.insert_count < MaxInserts
       /\ insert(insert_header(dt, h))
       /\ UNCHANGED <<tableVars, blockVars, wireVars, lockVars>>

\* write_lock.ref_entry_at(idx), of the closure of encode_headers
Table_ref_entry_at ==
  \E idx \in 0..(MaxInserts - 1) :
    /\ idx < Len(dt.list) => dt.list[idx + 1].outstanding_count < MaxOutstanding
    /\ Direct("ref_entry_at", idx, ref_entry_at(dt, idx), NoHeader)
    /\ UNCHANGED <<tableVars, blockVars, wireVars, inserted, lockVars>>

\* dynamic_table.cancel_section(vec![idx]) on an entry that is referenced
Table_cancel_section ==
  \E idx \in 0..(MaxInserts - 1) :
    /\ idx < Len(dt.list)
    /\ dt.list[idx + 1].outstanding_count > 0
    /\ Direct("cancel_section", idx, DynamicTable_cancel_section(dt, <<idx>>), NoHeader)
    /\ UNCHANGED <<tableVars, blockVars, wireVars, inserted, lockVars>>

\* dynamic_table.ack_section(section, vec![]), of the closure of
\* encode_section_ackowledgment
Table_ack_section ==
  \E section \in 1..MaxInserts :
    /\ section <= dt.insert_count
    /\ Direct("ack_section", section, DynamicTable_ack_section(dt, section, <<>>),
              NoHeader)
    /\ UNCHANGED <<tableVars, blockVars, wireVars, inserted, lockVars>>

\* table.get(abs_idx)
Table_get ==
  \E abs_idx \in 0..MaxInserts :
    LET read(r) ==
          /\ direct.err # Panic
          /\ direct' = DirectCall("get", abs_idx, r.err, r.header)
    IN /\ read(DynamicTable_get(dt, abs_idx))
       /\ UNCHANGED <<tableVars, blockVars, wireVars, dt, inserted, lockVars>>

TableHeaderLists ==
  {<<h>> : h \in TableHeaders} \cup {<<g, h>> : g \in TableHeaders, h \in TableHeaders}

RECURSIVE insert_headers_in_order(_, _)
\* the closure of encode_insert_headers on the table: insert_header for each
\* header, stopping at the first that fails
insert_headers_in_order(t, headers) ==
  LET rest(r) == IF r.err # NoError THEN r
                 ELSE insert_headers_in_order(r.t, Tail(headers))
  IN IF headers = <<>> THEN Ok(t) ELSE rest(insert_header(t, Head(headers)))

\* tests::insert_headers on the table: is_insertable(headers) first, and the
\* inserts only when it returned true
Table_insert_headers ==
  \E hs \in TableHeaderLists :
    LET insert(r) ==
          /\ Direct("insert_headers", hs, r, NoHeader)
          /\ inserted' = inserted \o SubSeq(hs, 1, r.t.insert_count - dt.insert_count)
    IN /\ dt.insert_count + Len(hs) <= MaxInserts
       /\ IF is_insertable(dt, hs)
            THEN insert(insert_headers_in_order(dt, hs))
            ELSE /\ Direct("is_insertable", hs, Ok(dt), NoHeader)
                 /\ UNCHANGED inserted
       /\ UNCHANGED <<tableVars, blockVars, wireVars, lockVars>>

NextTable ==
  \/ Table_set_capacity
  \/ Table_insert_header
  \/ Table_ref_entry_at
  \/ Table_cancel_section
  \/ Table_ack_section
  \/ Table_get
  \/ Table_insert_headers

SpecTable == InitTable /\ [][NextTable]_vars

\* C12: insert_header with a header whose size is above the capacity returns
\* EncoderStreamError and leaves the table (entries, current_size,
\* insert_count, eviction_count, both maps) as it was
C12_OversizeInsertRejected ==
  [][(direct'.op = "insert_header" /\ direct'.arg > dt.capacity)
       => (direct'.err = EncoderStreamError /\ dt' = dt /\ inserted' = inserted)]_vars

\* an insert was rejected for its size by a table that holds an entry
C12_Witness ==
  /\ direct.op = "insert_header"
  /\ direct.arg > dt.capacity
  /\ direct.err = EncoderStreamError
  /\ dt.list # <<>>

\* how many of the oldest entries leave for current_size to come down to cap
RECURSIVE HasToEvict(_, _, _, _)
HasToEvict(t, cap, current_size, pos) ==
  IF cap < current_size /\ pos < Len(t.list)
    THEN HasToEvict(t, cap, current_size - t.list[pos + 1].size, pos + 1)
    ELSE pos

\* reaching cap takes an entry that a pending section refers to, or whose
\* absolute index is not below known_received_count
ForbiddenEviction(t, cap) ==
  \E pos \in 0..(HasToEvict(t, cap, t.current_size, 0) - 1) :
    \/ t.list[pos + 1].outstanding_count > 0
    \/ t.eviction_count + pos >= t.known_received_count

\* C13: set_capacity(c) with c above max_capacity returns EncoderStreamError
\* and leaves the table as it was; with c <= max_capacity and no eviction of
\* a referenced or unacknowledged entry needed, it returns Ok with
\* capacity = c and current_size <= c
C13_SetCapacityContract ==
  [][direct'.op = "set_capacity"
       => /\ direct'.arg > dt.max_capacity
               => (direct'.err = EncoderStreamError /\ dt' = dt)
          /\ (direct'.arg <= dt.max_capacity /\ ~ForbiddenEviction(dt, direct'.arg))
               => /\ direct'.err = NoError
                  /\ dt'.capacity = direct'.arg
                  /\ dt'.current_size <= direct'.arg]_vars

\* set_capacity has evicted an acknowledged, unreferenced entry and kept
\* another one
C13_Witness ==
  /\ direct.op = "set_capacity"
  /\ direct.err = NoError
  /\ dt.capacity = direct.arg
  /\ dt.eviction_count > 0
  /\ dt.eviction_count <= dt.known_received_count
  /\ dt.list # <<>>

\* C14: set_capacity(c) with c below current_size, where reaching c takes an
\* entry that a pending section refers to or that is not acknowledged,
\* returns EncoderStreamError and leaves the table as it was
C14_ForbiddenEvictionRejected ==
  [][(/\ direct'.op = "set_capacity"
      /\ direct'.arg < dt.current_size
      /\ ForbiddenEviction(dt, direct'.arg))
       => (direct'.err = EncoderStreamError /\ dt' = dt)]_vars

\* C18: get(i) returns the header of the i-th successful insert, counted from
\* 0, when eviction_count <= i < insert_count, and DecompressionFailed when
\* i < eviction_count or i >= insert_count
C18_AbsoluteIndexStable ==
  direct.op = "get"
    => IF dt.eviction_count <= direct.arg /\ direct.arg < dt.insert_count
         THEN direct.err = NoError /\ direct.header = inserted[direct.arg + 1]
         ELSE direct.err = DecompressionFailed

\* the headers fit in order within the capacity, evicting only entries that
\* no pending section refers to and that are acknowledged
CanInsertInOrder(t, headers) ==
  /\ SumSizes(headers) <= t.capacity
  /\ ~ForbiddenEviction(t, t.capacity - SumSizes(headers))

\* C24: is_insertable(headers) returns true if and only if all the headers
\* can be inserted in order within the capacity by evicting only entries with
\* outstanding_count = 0 and absolute index below known_received_count; it
\* returns false when their total size exceeds the capacity, and whenever it
\* returns true the inserts of the commit succeed.
C24_InsertableIffFits ==
  [][direct'.op \in {"is_insertable", "insert_headers"}
       => /\ is_insertable(dt, direct'.arg) <=> CanInsertInOrder(dt, direct'.arg)
          /\ SumSizes(direct'.arg) > dt.capacity => ~is_insertable(dt, direct'.arg)
          /\ is_insertable(dt, direct'.arg) => direct'.err = NoError]_vars

----------------------------------------------------------------------------
(* Commit closures and planning, on the Qpack object A *)

\* C15: when the commit closure of encode_insert_headers returns
\* EncoderStreamError at one of its inserts, the dynamic table (entries,
\* current_size, insert_count, eviction_count, capacity) is the one of
\* before the commit
C15_CommitAllOrNothing ==
  [][(/\ last'.op = "encode_insert_headers"
      /\ last'.phase = "commit"
      /\ last'.err = EncoderStreamError)
       => /\ qp'["A"].table.list = qp["A"].table.list
          /\ qp'["A"].table.current_size = qp["A"].table.current_size
          /\ qp'["A"].table.insert_count = qp["A"].table.insert_count
          /\ qp'["A"].table.eviction_count = qp["A"].table.eviction_count
          /\ qp'["A"].table.capacity = qp["A"].table.capacity]_vars

----------------------------------------------------------------------------
(* SpecPlan: a host that makes any planning call on its Codec and then     *)
(* either invokes the closure or drops it.                                 *)

\* inserts stop once the table has seen this many
MaxPlanInserts == 1

InitPlan == Init

\* a planning call on c whose closure the host invokes
PlanCommit(c) ==
  \E pl \in Plans(qp[c]) :
    /\ pl[1] \in {"encode_insert_headers", "decode_encoder_instruction"}
         => qp[c].table.insert_count < MaxPlanInserts
    /\ pl[1] = "encode_headers"
         => \A i \in 1..Len(qp[c].table.list) :
              qp[c].table.list[i].outstanding_count < MaxOutstanding
    /\ Call(c, pl[1], pl[2])

NextPlan ==
  \/ PlanCommit("A")
  \/ PlanOnly("A")

SpecPlan == InitPlan /\ [][NextPlan]_vars

C19_AcknowledgmentNeverLowers ==
  [][(/\ last'.op = "decode_decoder_instruction"
      /\ last'.phase = "commit"
      /\ last'.err = NoError)
       => qp'["A"].table.known_received_count
            >= qp["A"].table.known_received_count]_vars
----------------------------------------------------------------------------
(* SpecDecode: Codec B in the decoder role against a peer that may send    *)
(* any field section: B applies encoder-stream buffers and decodes crafted *)
(* sections of one field line that refers to the dynamic table.            *)

\* the Delta Base values a crafted prefix carries
DeltaBases == 0..1

\* the one field line of a crafted section: each representation that refers
\* to the dynamic table, with every index up to MaxInserts
CraftedFields ==
  {encode_indexed(i, FALSE) : i \in 0..MaxInserts}
    \cup {encode_indexed_post_base(i) : i \in 0..MaxInserts}
    \cup {encode_refer_name(i, h, FALSE) : i \in 0..MaxInserts, h \in {HdrAX, Sensitive(HdrAX)}}
    \cup {encode_refer_name_post_base(i, HdrAX) : i \in 0..MaxInserts}

\* the prefixes Encoder::prefix writes for the table t, for any Required
\* Insert Count and any base on either side of it
CraftedPrefixes(t) ==
  LET prefixes ==
        {Encoder_prefix(t, r, FALSE, r + d) : r \in 1..MaxInserts, d \in DeltaBases}
          \cup {Encoder_prefix(t, rd[1], TRUE, rd[1] - rd[2] - 1) :
                  rd \in {x \in (1..MaxInserts) \X DeltaBases : x[2] < x[1]}}
  IN {p.wire : p \in {x \in prefixes : x.err = NoError}}

CraftedSections(t) == {p \o f : p \in CraftedPrefixes(t), f \in CraftedFields}

InitDecode == Init

\* B applies one buffer of the encoder stream; a behaviour is followed up to
\* its first decoded section
Decode_apply ==
  \E wire \in EncoderWires(qp[B]) :
    /\ got.of = NoSection
    /\ qp[B].table.insert_count < MaxInserts
    /\ Call(B, "decode_encoder_instruction", decode_encoder_instruction(qp[B], wire))

\* B decodes a crafted section that does not have to wait
Decode_headers ==
  \E wire \in CraftedSections(qp[B].table), id \in StreamIds :
    LET return(r) ==
          /\ r.err # Blocked
          /\ qp' = [qp EXCEPT ![B] = r.q]
          /\ got' = Result(r.err, r.headers, r.ref_dynamic,
                           Section(wire, <<>>, 0), 0)
          /\ last' = Last("decode_headers", B, "return", r.err)
    IN /\ got.of = NoSection
       /\ return(decode_headers(qp[B], wire, id))
       /\ UNCHANGED <<poisoned, blockVars, estream, sent, emitted, unitVars, lockVars>>

NextDecode ==
  \/ Decode_apply
  \/ Decode_headers

SpecDecode == InitDecode /\ [][NextDecode]_vars

\* the absolute index the field line of a crafted section targets, and
\* whether it lies in [eviction_count, required_insert_count)
TargetInRange(t, wire) ==
  LET abs(p, b, first) ==
        IF first >= 128 THEN p.base - Qnum_decode(wire, p.len, 6).val - 1
        ELSE IF first >= 64 THEN p.base - Qnum_decode(wire, p.len, 4).val - 1
        ELSE IF first >= 16 THEN p.base + Qnum_decode(wire, p.len, 4).val
        ELSE p.base + Qnum_decode(wire, p.len, 3).val
      within(p, a) == t.eviction_count <= a /\ a < p.required_insert_count
      target(p) == within(p, abs(p, p.base, wire[p.len + 1]))
  IN target(Decoder_prefix(t, wire, 0))

\* C17: for every Indexed, Indexed-Post-Base, Literal-Name-Ref and
\* Literal-Name-Ref-Post-Base field line that targets the dynamic table,
\* decode_headers returns DecompressionFailed (no panic, no header) unless the
\* target absolute index is below required_insert_count and at least
\* eviction_count.
C17_OutOfRangeReferenceFails ==
  (last.op = "decode_headers" /\ ~TargetInRange(qp[B].table, got.of.wire))
    => got.err = DecompressionFailed
----------------------------------------------------------------------------
(* SpecCancel: Codec A in the encoder role, sending sections on two        *)
(* streams, against a peer that acknowledges and cancels them.             *)

CancelStreams == {4, 8}

\* what a section of A referred to: its stream and the eviction_count of the
\* table when it was planned, which turns the positions kept in
\* pending_sections into absolute indices
Reference(stream_id, evicted) == [stream_id |-> stream_id, evicted |-> evicted]

InitCancel == Init

\* A sends a section on a stream that has none pending
Cancel_send ==
  \E hs \in HeaderLists, s \in CancelStreams :
    LET invoke(r) ==
          /\ r.err = NoError
          /\ qp' = [qp EXCEPT !["A"] = r.q]
          /\ last' = Last("encode_headers", "A", "commit", NoError)
          /\ sent' = {x \in sent : x.stream_id # s}
                       \cup IF has_section(r.q.encoder, s)
                              THEN {Reference(s, qp["A"].table.eviction_count)}
                              ELSE {}
        plan(p) ==
          /\ p.err = NoError
          /\ invoke(commit(qp["A"], p.closure))
    IN /\ ~poisoned["A"]
       /\ ~has_section(qp["A"].encoder, s)
       /\ \A i \in 1..Len(qp["A"].table.list) :
            qp["A"].table.list[i].outstanding_count < MaxOutstanding
       /\ plan(encode_headers(qp["A"], hs, s))
       /\ UNCHANGED <<poisoned, blockVars, estream, got, emitted, unitVars, lockVars>>

\* the peer cancels a stream that has a pending section
Cancel_recv ==
  \E s \in CancelStreams :
    LET invoke(r) ==
          /\ qp' = [qp EXCEPT !["A"] = r.q]
          /\ poisoned' = [poisoned EXCEPT !["A"] = (r.err = Panic)]
          /\ last' = Last("stream_cancellation", "A", "commit", r.err)
        plan(p) ==
          /\ p.err = NoError
          /\ invoke(commit(qp["A"], p.closure))
    IN /\ ~poisoned["A"]
       /\ has_section(qp["A"].encoder, s)
       /\ plan(decode_decoder_instruction(qp["A"], encode_stream_cancellation(s)))
       /\ sent' = {x \in sent : x.stream_id # s}
       /\ UNCHANGED <<blockVars, estream, got, emitted, unitVars, lockVars>>

\* the peer acknowledges what it received
Cancel_increment ==
  /\ Call("A", "decode_decoder_instruction",
          decode_decoder_instruction(qp["A"], encode_insert_count_increment(1)))

NextCancel ==
  \/ SetCapacity("A")
  \/ InsertHeaders("A")
  \/ Cancel_send
  \/ Cancel_recv
  \/ Cancel_increment

SpecCancel == InitCancel /\ [][NextCancel]_vars

\* how many times x occurs in the sequence s
Occurrences(s, x) == Cardinality({i \in 1..Len(s) : s[i] = x})

\* the table t after one reference less for each reference that the section
\* planned at eviction count evicted holds to an entry still in t
Dereferenced(t, indices, evicted) ==
  [t EXCEPT !.list =
     [i \in 1..Len(t.list) |->
        [t.list[i] EXCEPT !.outstanding_count =
           @ - Occurrences(indices, i - 1 + t.eviction_count - evicted)]]]

\* C20: applying a Stream Cancellation for a stream with a pending encoder
\* section succeeds, removes that section, takes one reference (one per field
\* line that referred to it) from each entry the section referenced, and
\* leaves known_received_count, insert_count, capacity, the entries and
\* every other pending section unchanged.
C20_CancellationReleasesReferences ==
  [][last'.op = "stream_cancellation" =>
       \E x \in sent \ sent' :
         LET pending == qp["A"].encoder.pending_sections
         IN /\ last'.err = NoError
            /\ qp'["A"].encoder.pending_sections =
                 [s \in DOMAIN pending \ {x.stream_id} |-> pending[s]]
            /\ qp'["A"].table =
                 Dereferenced(qp["A"].table, pending[x.stream_id][2], x.evicted)]_vars
----------------------------------------------------------------------------
(* SpecStream: Codec A in the encoder role receives one decoder-stream     *)
(* buffer of one or two instructions, after any inserts and sections; a    *)
(* behaviour is followed up to that buffer.                                *)

\* the instructions a peer may write on the decoder stream
Instructions ==
  {<<"ack", s>> : s \in StreamIds} \cup {<<"cancel", s>> : s \in StreamIds}
    \cup {<<"increment", n>> : n \in 0..2}

\* Decoder::encode_* for one instruction
InstructionWire(i) ==
  IF i[1] = "ack" THEN encode_section_ackowledgment(i[2])
  ELSE IF i[1] = "cancel" THEN encode_stream_cancellation(i[2])
  ELSE encode_insert_count_increment(i[2])

\* the buffers: one instruction, or two in a row
InstructionLists ==
  {<<i>> : i \in Instructions} \cup {<<i, j>> : i \in Instructions, j \in Instructions}
StreamWire(is) ==
  IF Len(is) = 1 THEN InstructionWire(is[1])
  ELSE InstructionWire(is[1]) \o InstructionWire(is[2])

InitStream == Init

Stream_set_capacity == direct = NoCall /\ SetCapacity("A")
Stream_insert_headers == direct = NoCall /\ InsertHeaders("A")
Stream_send_headers == direct = NoCall /\ SendHeaders("A")

\* A plans the buffer and invokes the closure; direct keeps the buffer
Stream_recv ==
  \E is \in InstructionLists :
    LET invoke(r) ==
          /\ qp' = [qp EXCEPT !["A"] = r.q]
          /\ poisoned' = [poisoned EXCEPT !["A"] = (r.err = Panic)]
          /\ last' = Last("decode_decoder_instruction", "A", "commit", r.err)
          /\ direct' = DirectCall("decode_decoder_instruction", is, r.err, NoHeader)
        plan(p) ==
          IF p.err # NoError
            THEN /\ last' = Last("decode_decoder_instruction", "A", "plan", p.err)
                 /\ direct' = DirectCall("decode_decoder_instruction", is, p.err, NoHeader)
                 /\ UNCHANGED <<qp, poisoned>>
            ELSE invoke(commit(qp["A"], p.closure))
    IN /\ direct = NoCall
       /\ plan(decode_decoder_instruction(qp["A"], StreamWire(is)))
       /\ UNCHANGED <<blockVars, wireVars, dt, inserted, lockVars>>

NextStream ==
  \/ Stream_set_capacity
  \/ Stream_insert_headers
  \/ Stream_send_headers
  \/ Stream_recv

SpecStream == InitStream /\ [][NextStream]_vars

\* the instruction list is has an acknowledgment that finds no pending
\* section when its turn comes: none at the start, or one that an earlier
\* instruction of the buffer has removed
AckFindsNoSection(e, is) ==
  \E k \in 1..Len(is) :
    /\ is[k][1] = "ack"
    /\ \/ ~has_section(e, is[k][2])
       \/ \E j \in 1..(k - 1) : is[j][1] \in {"ack", "cancel"} /\ is[j][2] = is[k][2]

\* C21: a Section Acknowledgment for a stream that has no pending encoder
\* section when the instruction is applied yields DecoderStreamError and
\* changes no state, for every decoder-stream buffer, one with two
\* acknowledgments for the same stream included.
C21_AckWithoutSectionRejected ==
  [][(/\ direct'.op = "decode_decoder_instruction"
      /\ AckFindsNoSection(qp["A"].encoder, direct'.arg))
       => /\ direct'.err = DecoderStreamError
          /\ qp' = qp]_vars

\* the sum of the first k increments of the instruction list is
RECURSIVE IncrementSum(_, _)
IncrementSum(is, k) == IF k = 0 THEN 0 ELSE IncrementSum(is, k - 1) + is[k][2]

\* C22: an Insert Count Increment with delta = 0, or one that would raise
\* known_received_count above known_sending_count, fails with
\* DecoderStreamError and leaves known_received_count unchanged; otherwise it
\* advances known_received_count by exactly delta.  In a buffer of several
\* increments each is judged against the count the preceding ones left.
C22_IncrementWithinSent ==
  [][LET accepted(q, is, k) ==
           /\ is[k][2] # 0
           /\ q.table.known_received_count + IncrementSum(is, k)
                <= q.encoder.known_sending_count
         judged(q, q2, is, err) ==
           IF \A k \in 1..Len(is) : accepted(q, is, k)
             THEN /\ err = NoError
                  /\ q2.table.known_received_count
                       = q.table.known_received_count + IncrementSum(is, Len(is))
             ELSE /\ err = DecoderStreamError
                  /\ q2.table.known_received_count = q.table.known_received_count
     IN (/\ direct'.op = "decode_decoder_instruction"
         /\ \A k \in 1..Len(direct'.arg) : direct'.arg[k][1] = "increment")
          => judged(qp["A"], qp'["A"], direct'.arg, direct'.err)]_vars
----------------------------------------------------------------------------
(* SpecBatch: Codec B in the decoder role applies encoder-stream buffers   *)
(* of one or two instructions.                                             *)

\* the instructions a peer may write on the encoder stream
BatchInstructions ==
  {encode_set_dynamic_table_capacity(cap) : cap \in {34, MaxCapacity}}
    \cup {encode_insert_both_literal(h) : h \in {HdrAX, HdrBY}}
    \cup {encode_insert_refer_name(FALSE, i, <<121, 121>>) : i \in 0..1}
    \cup {encode_duplicate(i) : i \in 0..1}

BatchLists ==
  {<<i>> : i \in BatchInstructions}
    \cup {<<i, j>> : i \in BatchInstructions, j \in BatchInstructions}

\* the buffer that holds the instructions of is in a row
RECURSIVE BatchWire(_)
BatchWire(is) == IF is = <<>> THEN <<>> ELSE Head(is) \o BatchWire(Tail(is))

InitBatch == Init

\* B plans the buffer and invokes the closure; direct keeps the instructions
Batch_apply ==
  \E is \in BatchLists :
    LET invoke(r) ==
          /\ qp' = [qp EXCEPT ![B] = r.q]
          /\ poisoned' = [poisoned EXCEPT ![B] = (r.err = Panic)]
          /\ last' = Last("decode_encoder_instruction", B, "commit", r.err)
          /\ direct' = DirectCall("decode_encoder_instruction", is, r.err, NoHeader)
        plan(p) ==
          IF p.err # NoError
            THEN /\ last' = Last("decode_encoder_instruction", B, "plan", p.err)
                 /\ direct' = DirectCall("decode_encoder_instruction", is, p.err, NoHeader)
                 /\ UNCHANGED <<qp, poisoned>>
            ELSE invoke(commit(qp[B], p.closure))
    IN /\ ~poisoned[B]
       /\ qp[B].table.insert_count + Len(is) <= MaxInserts
       /\ plan(decode_encoder_instruction(qp[B], BatchWire(is)))
       /\ UNCHANGED <<blockVars, wireVars, dt, inserted, lockVars>>

NextBatch ==
  \/ Batch_apply

SpecBatch == InitBatch /\ [][NextBatch]_vars

\* decoding and committing the instructions of is one at a time
RECURSIVE OneAtATime(_, _)
OneAtATime(q, is) ==
  LET next(r) == IF r.err # NoError THEN r ELSE OneAtATime(r.q, Tail(is))
      plan(p) == IF p.err # NoError THEN Fail(p.err, q)
                 ELSE next(commit(q, p.closure))
  IN IF is = <<>> THEN Done(q) ELSE plan(decode_encoder_instruction(q, Head(is)))

\* C23: the decoder applies encoder-stream instructions in arrival order:
\* decoding one buffer of k instructions leaves the same table as decoding
\* and committing the k instructions one at a time, each Duplicate and each
\* dynamic Insert With Name Reference resolving its index against the table
\* the preceding instructions of the buffer left.
C23_BufferAsOneAtATime ==
  [][LET same(one, err, q2) ==
           one.err = NoError => (err = NoError /\ q2.table = one.q.table)
     IN direct'.op = "decode_encoder_instruction"
          => same(OneAtATime(qp[B], direct'.arg), direct'.err, qp'[B])]_vars
----------------------------------------------------------------------------
(* SpecLocks: the threads of one host run planning calls and commit        *)
(* closures on one shared Qpack; only the lock operations of each call are *)
(* kept, in the order the code performs them.  A guard that is a temporary *)
(* lives to the end of its statement; a guard bound by let lives to the    *)
(* end of its block.                                                       *)

Acquire(l, mode) == <<"acquire", l, mode>>
Release(l) == <<"release", l>>

\* self.dynamic_table.read().unwrap().<method>(): Table::find_header,
\* get_max_entries, get_entry_len, get, get_entry
table_read == <<Acquire("dynamic_table", "read"), Release("dynamic_table")>>

\* DynamicTable::get_insert_count and increment_insert_count: mux.lock()
insert_count_lock == <<Acquire("insert_count", "lock"), Release("insert_count")>>

\* Table::get_insert_count: the Mutex is taken under the table's read lock
get_insert_count ==
  <<Acquire("dynamic_table", "read")>> \o insert_count_lock
    \o <<Release("dynamic_table")>>

\* the lock operations of each planning call and of each closure
LockPrograms ==
  { \* Qpack::encode_insert_headers: find_headers, get_insert_count,
    \* Table::duplicate or insert_refer_name
    table_read \o get_insert_count \o get_insert_count \o table_read,
    \* its closure: the table's write lock, the inserts, then the encoder's
    <<Acquire("dynamic_table", "write")>> \o insert_count_lock
      \o <<Acquire("encoder", "write"), Release("encoder"), Release("dynamic_table")>>,
    \* the closure of Qpack::encode_set_dynamic_table_capacity
    <<Acquire("dynamic_table", "write"), Release("dynamic_table")>>,
    \* the closure of Qpack::encode_section_ackowledgment
    <<Acquire("decoder", "write"), Release("decoder"),
      Acquire("dynamic_table", "write"), Release("dynamic_table")>>,
    \* the closure of Qpack::encode_stream_cancellation
    <<Acquire("decoder", "write"), Release("decoder")>>,
    \* Qpack::encode_insert_count_increment (its closure is that of
    \* encode_set_dynamic_table_capacity)
    table_read,
    \* Qpack::encode_headers: find_headers, get_prefix_meta_data, Encoder::prefix
    table_read \o get_insert_count \o table_read \o table_read,
    \* its closure: ref_entry_at under the table's write lock, then add_section
    <<Acquire("dynamic_table", "write"), Acquire("encoder", "write"),
      Release("encoder"), Release("dynamic_table")>>,
    \* Qpack::decode_encoder_instruction: Table::duplicate or insert_refer_name
    get_insert_count \o table_read,
    \* its closure: the inserts under the table's write lock
    <<Acquire("dynamic_table", "write")>> \o insert_count_lock
      \o <<Release("dynamic_table")>>,
    \* Qpack::decode_decoder_instruction: has_section, then the increment
    \* test that reads the table while the encoder's read guard is alive
    <<Acquire("encoder", "read"), Release("encoder"),
      Acquire("encoder", "read"), Acquire("dynamic_table", "read"),
      Release("dynamic_table"), Release("encoder")>>,
    \* its closure: Table::section_ackowledgment or stream_cancellation take
    \* the encoder's write lock under the table's
    <<Acquire("dynamic_table", "write"), Acquire("encoder", "write"),
      Release("encoder"), Release("dynamic_table")>> }

InitLocks == Init

\* can thread t take the lock its next operation asks for
Available(t, step) ==
  IF step[2] = "insert_count" THEN mux = NoThread
  ELSE IF step[3] = "write"
    THEN rw[step[2]].writer = NoThread /\ rw[step[2]].readers = {}
    ELSE rw[step[2]].writer = NoThread

\* thread t enters a planning call or a closure
Lock_call(t) ==
  \E program \in LockPrograms :
    /\ run[t] = <<>>
    /\ run' = [run EXCEPT ![t] = program]
    /\ UNCHANGED <<tableVars, blockVars, wireVars, unitVars, rw>>

\* read(), write() or lock() returns
Lock_acquire(t) ==
  LET take(step) ==
        /\ step[1] = "acquire"
        /\ Available(t, step)
        /\ IF step[2] = "insert_count"
             THEN mux' = t /\ UNCHANGED rw
             ELSE /\ rw' = [rw EXCEPT ![step[2]] =
                              IF step[3] = "write"
                                THEN [@ EXCEPT !.writer = t]
                                ELSE [@ EXCEPT !.readers = @ \cup {t}]]
                  /\ UNCHANGED mux
  IN /\ run[t] # <<>>
     /\ take(Head(run[t]))
     /\ run' = [run EXCEPT ![t] = Tail(@)]
     /\ UNCHANGED <<tableVars, thr, applier, wireVars, unitVars>>

\* the guard is dropped
Lock_release(t) ==
  LET drop_guard(step) ==
        /\ step[1] = "release"
        /\ IF step[2] = "insert_count"
             THEN mux' = NoThread /\ UNCHANGED rw
             ELSE /\ rw' = [rw EXCEPT ![step[2]] =
                              IF @.writer = t
                                THEN [@ EXCEPT !.writer = NoThread]
                                ELSE [@ EXCEPT !.readers = @ \ {t}]]
                  /\ UNCHANGED mux
  IN /\ run[t] # <<>>
     /\ drop_guard(Head(run[t]))
     /\ run' = [run EXCEPT ![t] = Tail(@)]
     /\ UNCHANGED <<tableVars, thr, applier, wireVars, unitVars>>

NextLocks ==
  \/ \E t \in Threads : Lock_call(t)
  \/ \E t \in Threads : Lock_acquire(t)
  \/ \E t \in Threads : Lock_release(t)

SpecLocks == InitLocks /\ [][NextLocks]_vars

\* thread t is inside read(), write() or lock() and cannot return
Waiting(t) ==
  /\ run[t] # <<>>
  /\ Head(run[t])[1] = "acquire"
  /\ ~Available(t, Head(run[t]))

\* the threads that hold lock l
Holders(l) ==
  IF l = "insert_count" THEN {mux} \ {NoThread}
  ELSE ({rw[l].writer} \ {NoThread}) \cup rw[l].readers

\* some threads wait for locks that only threads among them hold
Deadlock ==
  \E S \in (SUBSET Threads) \ {{}} :
    \A t \in S : Waiting(t) /\ Holders(Head(run[t])[2]) \subseteq S

\* C25: for any threads concurrently running planning calls, commit
\* closures, decode_encoder_instruction and decode_decoder_instruction on one
\* shared Qpack, the lock acquisitions on the dynamic table, the encoder
\* state, the decoder state and the insert-count mutex never form a deadlock.
C25_NoDeadlock == ~Deadlock
----------------------------------------------------------------------------
(* SpecQnum: Qnum::encode followed by Qnum::decode, as the test            *)
(* encode_decode of transformer/qnum.rs runs them.                         *)

\* the test's range of values is 0 .. 2 * u16::MAX - 1
MaxQnumValue == 65535

\* the largest value of the model's integers, 2^31 - 1
MaxWideValue == Pow2(30) - 1 + Pow2(30)

\* the prefix widths
PrefixWidths == 1..8

\* the values at which an encoding grows by one byte, and the largest ones
WideValues ==
  {Pow2(7 * k) + Pow2(n) - 1 + d : k \in 1..4, n \in PrefixWidths, d \in {-1, 0}}
    \cup {2 * MaxQnumValue - 1, MaxWideValue - 1, MaxWideValue}

QnumValues == (0..MaxQnumValue) \cup WideValues

InitQnum == Init

\* let len = Qnum::encode(&mut encoded, i, j); let out = Qnum::decode(&encoded, 0, j)
Qnum_encode_decode ==
  /\ direct = NoCall
  /\ \E i \in QnumValues, j \in PrefixWidths :
    LET encoded == Qnum_encode(i, j)
        out == Qnum_decode(encoded, 0, j)
    IN /\ direct' = DirectCall("Qnum", [i |-> i, j |-> j, encoded |-> encoded,
                                         len |-> out.len, val |-> out.val],
                               out.err, NoHeader)
       /\ UNCHANGED <<tableVars, blockVars, wireVars, dt, inserted, lockVars>>

NextQnum ==
  \/ Qnum_encode_decode

SpecQnum == InitQnum /\ [][NextQnum]_vars

\* C26: for every value and every prefix width from 1 to 8, decoding the
\* bytes Qnum::encode pushed, with the same width, returns the value and the
\* number of bytes that encode returned.
C26_QnumRoundTrip ==
  direct.op = "Qnum" =>
    /\ direct.err = NoError
    /\ direct.arg.val = direct.arg.i
    /\ direct.arg.len = Len(direct.arg.encoded)

\* a value with a continuation byte went through an 8-bit prefix
C26_Witness ==
  /\ direct.op = "Qnum"
  /\ direct.arg.j = 8
  /\ Len(direct.arg.encoded) = 3
  /\ direct.arg.val = direct.arg.i
----------------------------------------------------------------------------
(* transformer/huffman.rs *)

\* HUFFMAN_TABLE: (code, bitlen) of the bytes 0..255 and of EOS
HUFFMAN_TABLE ==
  <<
     <<8184, 13>>, <<8388568, 23>>, <<268435426, 28>>, <<268435427, 28>>,
     <<268435428, 28>>, <<268435429, 28>>, <<268435430, 28>>, <<268435431, 28>>,
     <<268435432, 28>>, <<16777194, 24>>, <<1073741820, 30>>, <<268435433, 28>>,
     <<268435434, 28>>, <<1073741821, 30>>, <<268435435, 28>>, <<268435436, 28>>,
     <<268435437, 28>>, <<268435438, 28>>, <<268435439, 28>>, <<268435440, 28>>,
     <<268435441, 28>>, <<268435442, 28>>, <<1073741822, 30>>, <<268435443, 28>>,
     <<268435444, 28>>, <<268435445, 28>>, <<268435446, 28>>, <<268435447, 28>>,
     <<268435448, 28>>, <<268435449, 28>>, <<268435450, 28>>, <<268435451, 28>>,
     <<20, 6>>, <<1016, 10>>, <<1017, 10>>, <<4090, 12>>,
     <<8185, 13>>, <<21, 6>>, <<248, 8>>, <<2042, 11>>,
     <<1018, 10>>, <<1019, 10>>, <<249, 8>>, <<2043, 11>>,
     <<250, 8>>, <<22, 6>>, <<23, 6>>, <<24, 6>>,
     <<0, 5>>, <<1, 5>>, <<2, 5>>, <<25, 6>>,
     <<26, 6>>, <<27, 6>>, <<28, 6>>, <<29, 6>>,
     <<30, 6>>, <<31, 6>>, <<92, 7>>, <<251, 8>>,
     <<32764, 15>>, <<32, 6>>, <<4091, 12>>, <<1020, 10>>,
     <<8186, 13>>, <<33, 6>>, <<93, 7>>, <<94, 7>>,
     <<95, 7>>, <<96, 7>>, <<97, 7>>, <<98, 7>>,
     <<99, 7>>, <<100, 7>>, <<101, 7>>, <<102, 7>>,
     <<103, 7>>, <<104, 7>>, <<105, 7>>, <<106, 7>>,
     <<107, 7>>, <<108, 7>>, <<109, 7>>, <<110, 7>>,
     <<111, 7>>, <<112, 7>>, <<113, 7>>, <<114, 7>>,
     <<252, 8>>, <<115, 7>>, <<253, 8>>, <<8187, 13>>,
     <<524272, 19>>, <<8188, 13>>, <<16380, 14>>, <<34, 6>>,
     <<32765, 15>>, <<3, 5>>, <<35, 6>>, <<4, 5>>,
     <<36, 6>>, <<5, 5>>, <<37, 6>>, <<38, 6>>,
     <<39, 6>>, <<6, 5>>, <<116, 7>>, <<117, 7>>,
     <<40, 6>>, <<41, 6>>, <<42, 6>>, <<7, 5>>,
     <<43, 6>>, <<118, 7>>, <<44, 6>>, <<8, 5>>,
     <<9, 5>>, <<45, 6>>, <<119, 7>>, <<120, 7>>,
     <<121, 7>>, <<122, 7>>, <<123, 7>>, <<32766, 15>>,
     <<2044, 11>>, <<16381, 14>>, <<8189, 13>>, <<268435452, 28>>,
     <<1048550, 20>>, <<4194258, 22>>, <<1048551, 20>>, <<1048552, 20>>,
     <<4194259, 22>>, <<4194260, 22>>, <<4194261, 22>>, <<8388569, 23>>,
     <<4194262, 22>>, <<8388570, 23>>, <<8388571, 23>>, <<8388572, 23>>,
     <<8388573, 23>>, <<8388574, 23>>, <<16777195, 23>>, <<8388575, 23>>,
     <<16777196, 24>>, <<16777197, 24>>, <<4194263, 22>>, <<8388576, 23>>,
     <<16777198, 24>>, <<8388577, 23>>, <<8388578, 23>>, <<8388579, 23>>,
     <<8388580, 23>>, <<2097116, 21>>, <<4194264, 22>>, <<8388581, 23>>,
     <<4194265, 22>>, <<8388582, 23>>, <<8388583, 23>>, <<16777199, 24>>,
     <<4194266, 22>>, <<2097117, 21>>, <<1048553, 20>>, <<4194267, 22>>,
     <<4194268, 22>>, <<8388584, 23>>, <<8388585, 23>>, <<2097118, 21>>,
     <<8388574, 23>>, <<4194269, 22>>, <<4194270, 22>>, <<16777200, 24>>,
     <<2097119, 21>>, <<4194271, 22>>, <<8388587, 23>>, <<8388588, 23>>,
     <<2097120, 21>>, <<2097121, 21>>, <<4194272, 22>>, <<2097122, 21>>,
     <<8388589, 23>>, <<4194273, 22>>, <<8388590, 23>>, <<8388591, 23>>,
     <<1048554, 20>>, <<4194274, 22>>, <<4194275, 22>>, <<4194276, 22>>,
     <<8388592, 23>>, <<4194277, 22>>, <<4194278, 22>>, <<8388593, 23>>,
     <<67108832, 26>>, <<67108833, 26>>, <<1048555, 20>>, <<524273, 19>>,
     <<4194279, 22>>, <<8388594, 23>>, <<4194280, 22>>, <<33554412, 25>>,
     <<67108834, 26>>, <<67108835, 26>>, <<67108836, 26>>, <<134217694, 27>>,
     <<134217695, 27>>, <<67108837, 26>>, <<16777201, 24>>, <<33554413, 25>>,
     <<524274, 19>>, <<2097123, 21>>, <<67108838, 26>>, <<134217696, 27>>,
     <<134217697, 27>>, <<67108839, 26>>, <<67108834, 27>>, <<16777202, 24>>,
     <<2097124, 21>>, <<2097125, 21>>, <<67108840, 26>>, <<67108841, 26>>,
     <<268435453, 28>>, <<134217699, 27>>, <<134217700, 27>>, <<134217701, 27>>,
     <<1048556, 20>>, <<16777203, 24>>, <<1048557, 20>>, <<2097126, 21>>,
     <<4194281, 22>>, <<2097127, 21>>, <<2097128, 21>>, <<8388595, 23>>,
     <<4194282, 22>>, <<4194283, 22>>, <<33554414, 25>>, <<33554415, 25>>,
     <<16777204, 24>>, <<16777205, 24>>, <<67108842, 26>>, <<8388596, 23>>,
     <<67108843, 26>>, <<134217702, 27>>, <<67108844, 26>>, <<67108845, 26>>,
     <<134217703, 27>>, <<134217704, 27>>, <<134217705, 27>>, <<134217706, 27>>,
     <<134217707, 27>>, <<268435454, 28>>, <<134217708, 27>>, <<134217709, 27>>,
     <<134217710, 27>>, <<134217711, 27>>, <<134217712, 27>>, <<67108846, 26>>,
     <<1073741823, 30>>
  >>

\* the index of the table's last entry, EOS
HUFFMAN_EOS == Len(HUFFMAN_TABLE) - 1

\* HuffmanTransformer::build_map: of two bytes with one code the later stays
build_map ==
  [k \in {HUFFMAN_TABLE[a + 1] : a \in 0..HUFFMAN_EOS} |->
     CHOOSE a \in 0..HUFFMAN_EOS :
       /\ HUFFMAN_TABLE[a + 1] = k
       /\ \A b \in 0..HUFFMAN_EOS : HUFFMAN_TABLE[b + 1] = k => b <= a]

RECURSIVE Huffman_encode_code(_, _, _, _, _)
\* the while loop of HuffmanTransformer::encode over one byte's code
Huffman_encode_code(encoded, tmp, rest_bits, code, bitlen) ==
  IF bitlen = 0
    THEN [encoded |-> encoded, tmp |-> tmp, rest_bits |-> rest_bits]
    ELSE LET fits == bitlen < rest_bits
             shift == bitlen - rest_bits
             rest == IF fits THEN rest_bits - bitlen ELSE 0
             byte == IF fits
                       THEN BitOr(tmp, (code * Pow2(rest)) % 256)
                       ELSE BitOr(tmp, (code \div Pow2(shift)) % 256)
             code2 == IF fits THEN code ELSE code % Pow2(shift)
             bitlen2 == IF fits THEN 0 ELSE bitlen - rest_bits
         IN IF rest = 0
              THEN Huffman_encode_code(Append(encoded, byte), 0, 8, code2, bitlen2)
              ELSE Huffman_encode_code(encoded, byte, rest, code2, bitlen2)

RECURSIVE Huffman_encode_bytes(_, _, _, _)
\* the for loop of HuffmanTransformer::encode, then the padding
Huffman_encode_bytes(encoded, tmp, rest_bits, value) ==
  IF value = <<>>
    THEN IF rest_bits > 0 /\ rest_bits < 8
           THEN Append(encoded, BitOr(tmp, Pow2(rest_bits) - 1))
           ELSE encoded
    ELSE LET code == HUFFMAN_TABLE[Head(value) + 1]
             r == Huffman_encode_code(encoded, tmp, rest_bits, code[1], code[2])
         IN Huffman_encode_bytes(r.encoded, r.tmp, r.rest_bits, Tail(value))

\* HuffmanTransformer::encode with no bit of the first byte left to fill
Huffman_encode_no_room(value) == Huffman_encode_bytes(<<>>, 0, 0, value)

\* HuffmanTransformer::encode(encoded, value): the bytes pushed
Huffman_encode(value) == Huffman_encode_bytes(<<>>, 0, 8, value)

RECURSIVE Huffman_decode_bits(_, _, _, _, _, _)
\* the loop over the bits of one byte in HuffmanTransformer::decode; on the
\* encodings of ASCII strings sub stays below 2^30
Huffman_decode_bits(byte, j, value, tmp, sub, bit_len) ==
  IF j < 0
    THEN [value |-> value, tmp |-> tmp, bit_len |-> bit_len]
    ELSE LET sub2 == sub * 2 + ((byte \div Pow2(j)) % 2)
             key == <<sub2, bit_len + 1>>
         IN IF key \in DOMAIN build_map
              THEN Huffman_decode_bits(byte, j - 1,
                     Append(value, build_map[key] % 256), 0, 0, 0)
              ELSE Huffman_decode_bits(byte, j - 1, value, tmp, sub2, bit_len + 1)

RECURSIVE Huffman_decode_bytes(_, _, _, _, _, _)
\* the loop over the bytes in HuffmanTransformer::decode
Huffman_decode_bytes(wire, idx, str_len, value, tmp, bit_len) ==
  IF str_len = 0
    THEN [err |-> NoError, value |-> value]
    ELSE IF idx >= Len(wire)
      THEN [err |-> Panic, value |-> value]
      ELSE LET byte == wire[idx + 1]
               r == Huffman_decode_bits(byte, 7, value, tmp, tmp, bit_len)
               tmp2 == IF r.tmp = 0
                         THEN byte % Pow2(r.bit_len)
                         ELSE r.tmp * 256 + byte
           IN Huffman_decode_bytes(wire, idx + 1, str_len - 1, r.value, tmp2, r.bit_len)

\* HuffmanTransformer::decode(wire, idx, str_len)
Huffman_decode(wire, idx, str_len) ==
  Huffman_decode_bytes(wire, idx, str_len, <<>>, 0, 0)

----------------------------------------------------------------------------
(* SpecHuffman: HuffmanTransformer::encode followed by decode over the     *)
(* bytes pushed, as the test encode_decode of transformer/huffman.rs runs  *)
(* them.                                                                   *)

\* the ASCII bytes
Ascii == 0..127

\* the length of the longer strings
MaxHuffmanLen == 4

\* "0", "a", "A", "X", "!", "<", 0x01 and DEL: codes of 5, 5, 6, 8, 10, 15,
\* 23 and 28 bits
MixedAscii == {48, 97, 65, 88, 33, 60, 1, 127}

RECURSIVE StringsUpTo(_, _)
\* the strings of at most n bytes of alphabet
StringsUpTo(alphabet, n) ==
  IF n = 0 THEN {<<>>}
  ELSE LET shorter == StringsUpTo(alphabet, n - 1)
       IN shorter \cup {Append(s, a) : s \in shorter, a \in alphabet}

\* every ASCII string of at most two bytes, and the longer ones of MixedAscii
AsciiStrings ==
  {<<>>} \cup {<<a>> : a \in Ascii} \cup {<<a, b>> : a \in Ascii, b \in Ascii}
    \cup StringsUpTo(MixedAscii, MaxHuffmanLen)

InitHuffman == Init

\* HUFFMAN_TRANSFORMER.encode(&mut encoded, value), then
\* HUFFMAN_TRANSFORMER.decode(&encoded, 0, encoded.len())
Huffman_encode_decode ==
  /\ direct = NoCall
  /\ \E value \in AsciiStrings :
       LET encoded == Huffman_encode(value)
           out == Huffman_decode(encoded, 0, Len(encoded))
       IN /\ direct' = DirectCall("Huffman", [value |-> value, encoded |-> encoded,
                                               out |-> out.value],
                                  out.err, NoHeader)
          /\ UNCHANGED <<tableVars, blockVars, wireVars, dt, inserted, lockVars>>

NextHuffman ==
  \/ Huffman_encode_decode

SpecHuffman == InitHuffman /\ [][NextHuffman]_vars

\* C27: for every ASCII string, decoding the bytes HuffmanTransformer::encode
\* pushed, over their whole length, returns the string.
C27_HuffmanRoundTrip ==
  direct.op = "Huffman" =>
    /\ direct.err = NoError
    /\ direct.arg.out = direct.arg.value

\* a string whose codes cross byte boundaries and end with padding came back
C27_Witness ==
  /\ direct.op = "Huffman"
  /\ Len(direct.arg.value) = MaxHuffmanLen
  /\ Len(direct.arg.encoded) > MaxHuffmanLen
  /\ direct.arg.encoded[Len(direct.arg.encoded)] % 2 = 1
  /\ direct.arg.out = direct.arg.value
----------------------------------------------------------------------------
(* Pending sections and the entries they refer to, in SpecCancel *)

\* the absolute indices of the entries that the pending section of the
\* reference x matched when it was planned
MatchedEntries(x) ==
  LET indices == qp["A"].encoder.pending_sections[x.stream_id][2]
  IN {indices[k] + x.evicted : k \in 1..Len(indices)}

\* C28: while an encoder-side pending section exists, each index it records
\* is the absolute index of the entry matched at planning time, that entry
\* has not been evicted and its outstanding_count is at least 1, whatever
\* inserts and evictions happened since.
C28_PendingIndicesStayValid ==
  \A x \in sent :
    LET t == qp["A"].table
        pending == qp["A"].encoder.pending_sections
    IN x.stream_id \in DOMAIN pending =>
         /\ \A k \in 1..Len(pending[x.stream_id][2]) :
              pending[x.stream_id][2][k] + x.evicted = pending[x.stream_id][2][k]
         /\ \A a \in MatchedEntries(x) :
              /\ a >= t.eviction_count
              /\ a < t.insert_count
              /\ t.list[a - t.eviction_count + 1].outstanding_count >= 1
----------------------------------------------------------------------------
(* find on the dynamic table, in SpecTable *)

\* the absolute indices of the entries of t for which match holds
Live(t, match(_)) ==
  {t.eviction_count + i - 1 : i \in {j \in 1..Len(t.list) : match(t.list[j])}}

\* the largest element of a non-empty set of numbers
Highest(S) == CHOOSE a \in S : \A b \in S : b <= a

\* find(header) -> (both_match, absolute_idx), as the table's contents give it
Find(t, target) ==
  LET both(e) == e.name = target.name /\ e.value = target.value
      name(e) == e.name = target.name
  IN IF Live(t, both) # {} THEN <<TRUE, Highest(Live(t, both))>>
     ELSE IF Live(t, name) # {} THEN <<FALSE, Highest(Live(t, name))>>
     ELSE <<FALSE, NOT_FOUND>>

\* C29: after any inserts, duplicates and evictions, find returns a
\* both-match with the highest absolute index among the entries in the table
\* that hold the name and the value if there is one, otherwise a name-only
\* match with the highest absolute index among the entries in the table that
\* hold the name, otherwise not-found; never the index of an evicted entry.
C29_FindReturnsHighestLive ==
  \A target \in PlainHeaders : find_index(dt, target) = Find(dt, target)
----------------------------------------------------------------------------
(* The dynamic-table indices that Codec A's plans put on the wire, in Spec *)

\* Duplicate or Insert With Name Reference for the entry found at the
\* absolute index found[2], counted back from insert_count
InsertReference(t, found, header) ==
  IF found[1]
    THEN encode_duplicate(t.insert_count - 1 - found[2])
    ELSE encode_insert_refer_name(FALSE, t.insert_count - 1 - found[2], header.value)

\* the field lines that refer to the entry found at the absolute index
\* found[2] under the Base base: relative below Base, post-base from Base on
FieldReferences(found, header, base) ==
  IF found[2] < base
    THEN {IF found[1] THEN encode_indexed(base - 1 - found[2], FALSE)
          ELSE encode_refer_name(base - 1 - found[2], header, FALSE)}
    ELSE {IF found[1] THEN encode_indexed_post_base(found[2] - base)
          ELSE encode_refer_name_post_base(found[2] - base, header)}

\* C30: every dynamic-table index placed on the wire follows the conversions
\* also after evictions: a Duplicate or a dynamic Insert With Name Reference
\* for the entry with absolute index a carries insert_count - 1 - a, a
\* relative field-line reference carries base - 1 - a and a post-base one
\* a - base, base being the Base announced in the block's prefix.
C30_WireIndicesFollowConversions ==
  \A header \in Headers :
    LET t == qp["A"].table
        found == Find(t, header)
        insert == encode_insert_headers(qp["A"], <<header>>)
        block == encode_headers(qp["A"], <<header>>, 4)
        prefix == Decoder_prefix(t, block.wire, 0)
    IN ~poisoned["A"] /\ found[2] # NOT_FOUND =>
         /\ insert.err = NoError => insert.wire = InsertReference(t, found, header)
         /\ block.err = NoError =>
              /\ prefix.err = NoError
              /\ SubSeq(block.wire, prefix.len + 1, Len(block.wire))
                   \in FieldReferences(found, header, prefix.base)
----------------------------------------------------------------------------
(* SpecSend: Codec A in the encoder role; every field section it plans is  *)
(* kept with its bytes, whether the plan and the commit succeed or not.    *)

InitSend == Init

\* the bytes planned for headers on a stream
Sent(wire, headers, stream_id) ==
  [wire |-> wire, headers |-> headers, stream_id |-> stream_id]

\* A plans a field section and invokes the closure
Send_headers ==
  \E hs \in PairHeaderLists, s \in StreamIds :
    LET invoke(p, r) ==
          /\ qp' = [qp EXCEPT !["A"] = r.q]
          /\ poisoned' = [poisoned EXCEPT !["A"] = (r.err = Panic)]
          /\ last' = Last("encode_headers", "A", "commit", r.err)
          /\ sent' = {Sent(p.wire, hs, s)}
        plan(p) ==
          IF p.err # NoError
            THEN /\ last' = Last("encode_headers", "A", "plan", p.err)
                 /\ sent' = {Sent(<<>>, hs, s)}
                 /\ UNCHANGED <<qp, poisoned>>
            ELSE invoke(p, commit(qp["A"], p.closure))
    IN /\ ~poisoned["A"]
       /\ \A i \in 1..Len(qp["A"].table.list) :
            qp["A"].table.list[i].outstanding_count < MaxOutstanding
       /\ plan(encode_headers(qp["A"], hs, s))
       /\ UNCHANGED <<blockVars, estream, got, emitted, unitVars, lockVars>>

NextSend ==
  \/ SetCapacity("A")
  \/ InsertHeaders("A")
  \/ Send_headers

SpecSend == InitSend /\ [][NextSend]_vars

\* the absolute indices of the dynamic entries that a block for headers,
\* planned on table t, refers to, by index or by name
ReferencedEntries(t, headers) ==
  LET results == find_headers(t, headers)
  IN {Find(t, headers[i])[2] :
        i \in {j \in DOMAIN results : ~results[j][2] /\ results[j][3] # NOT_FOUND}}

\* C31: encode_headers announces a Required Insert Count of 1 + the largest
\* absolute index of the dynamic entries the block refers to, and 0 with
\* S = 0 and Delta Base = 0 when it refers to none; the closure records a
\* pending section for the stream exactly when the block refers to at least
\* one dynamic entry.
C31_RequiredInsertCountAnnounced ==
  [][last'.op = "encode_headers" =>
       \A x \in sent' :
         LET t == qp["A"].table
             refs == ReferencedEntries(t, x.headers)
             prefix == Decoder_prefix(t, x.wire, 0)
             pending == qp'["A"].encoder.pending_sections
         IN /\ last'.err = NoError
            /\ IF refs = {}
                 THEN /\ SubSeq(x.wire, 1, 2) = <<0, 0>>
                      /\ qp'["A"].encoder = qp["A"].encoder
                 ELSE /\ prefix.err = NoError
                      /\ prefix.required_insert_count = 1 + Highest(refs)
                      /\ x.stream_id \in DOMAIN pending
                      /\ pending[x.stream_id][1] = 1 + Highest(refs)]_vars

\* a block that refers to an entry of a table that has evicted was sent
C31_Witness ==
  /\ last.op = "encode_headers"
  /\ last.err = NoError
  /\ qp["A"].table.eviction_count > 0
  /\ 4 \in DOMAIN qp["A"].encoder.pending_sections
  /\ qp["A"].encoder.pending_sections[4][1] = qp["A"].table.insert_count
----------------------------------------------------------------------------
(* SpecPrefix: Encoder::prefix on one host and Decoder::prefix on the      *)
(* bytes on its peer, whose table has received insert_count inserts.       *)

\* the largest Required Insert Count encoded
MaxPrefixCount == 6

\* the largest number of inserts the decoding table has received
MaxPrefixInserts == 10

\* dynamic_table_max_capacity of both hosts: MaxEntries 1, 2 and 3
PrefixCapacities == {32, MaxCapacity, 100}

\* (S, Base) for the Required Insert Count r: Base at r or above with S = 0,
\* Base below r with S = 1
PrefixBases(r) ==
  {<<FALSE, r>>, <<FALSE, r + 1>>} \cup {<<TRUE, b>> : b \in 0..(r - 1)}

\* a table of the given max_capacity that has received insert_count inserts
TableWithInserts(max_capacity, insert_count) ==
  [DynamicTable_new(max_capacity) EXCEPT !.insert_count = insert_count,
                                         !.eviction_count = insert_count]

InitPrefix == Init

\* Encoder::prefix(&mut encoded, table, r, s_flag, base), then
\* Decoder::prefix(&encoded, 0, table) on the peer
Prefix_encode_decode ==
  /\ direct = NoCall
  /\ \E max_capacity \in PrefixCapacities, r \in 1..MaxPrefixCount,
        insert_count \in 0..MaxPrefixInserts :
       \E sb \in PrefixBases(r) :
         LET encoded == Encoder_prefix(TableWithInserts(max_capacity, 0), r, sb[1], sb[2])
             out == Decoder_prefix(TableWithInserts(max_capacity, insert_count),
                                   encoded.wire, 0)
         IN /\ direct' =
                 DirectCall("prefix",
                            [required_insert_count |-> r, s_flag |-> sb[1],
                             base |-> sb[2], insert_count |-> insert_count,
                             max_entries |-> max_capacity \div 32,
                             encoded |-> encoded, out |-> out],
                            out.err, NoHeader)
            /\ UNCHANGED <<tableVars, blockVars, wireVars, dt, inserted, lockVars>>

NextPrefix ==
  \/ Prefix_encode_decode

SpecPrefix == InitPrefix /\ [][NextPrefix]_vars

\* what the round trip has to give for the call c
PrefixRoundTrips(c) ==
  /\ c.encoded.err = NoError
  /\ c.encoded.wire[1] = (c.required_insert_count % (2 * c.max_entries)) + 1
  /\ c.out.err = NoError
  /\ c.out.required_insert_count = c.required_insert_count
  /\ c.out.base = c.base
  /\ c.out.len = Len(c.encoded.wire)

\* C32: for every Required Insert Count r >= 1, every Base encode_headers can
\* choose and every decoder insert_count within MaxEntries of r,
\* Decoder::prefix on the bytes of Encoder::prefix returns (r, Base), the
\* encoded insert count being (r mod (2 * MaxEntries)) + 1, without
\* underflow on either side.
C32_PrefixRoundTrip ==
  direct.op = "prefix" =>
    LET c == direct.arg
    IN (/\ c.required_insert_count - c.max_entries <= c.insert_count
        /\ c.insert_count <= c.required_insert_count + c.max_entries)
         => PrefixRoundTrips(c)

\* C32 for the insert counts from which the Required Insert Count can be
\* recovered: r - MaxEntries <= insert_count < r + MaxEntries.
C32_PrefixRoundTripInRange ==
  direct.op = "prefix" =>
    LET c == direct.arg
    IN (/\ c.required_insert_count - c.max_entries <= c.insert_count
        /\ c.insert_count < c.required_insert_count + c.max_entries)
         => PrefixRoundTrips(c)

\* a wrapped Required Insert Count under S = 1 came back
C32_Witness ==
  /\ direct.op = "prefix"
  /\ direct.arg.required_insert_count > 2 * direct.arg.max_entries
  /\ direct.arg.insert_count = direct.arg.required_insert_count + direct.arg.max_entries - 1
  /\ direct.arg.s_flag
  /\ direct.arg.base = 1
  /\ PrefixRoundTrips(direct.arg)
----------------------------------------------------------------------------
(* SpecInsert: Codec A plans encoder-stream inserts and invokes their      *)
(* closures, and sends field sections that refer to the entries; the bytes of *)
(* each plan are kept with its headers.                                     *)

InitInsert == Init

InsertLists ==
  {<<h>> : h \in PlainHeaders} \cup {<<g, h>> : g \in Headers, h \in Headers}
    \cup {<<HdrPath, HdrPath>>, <<HdrBY, HdrAX>>, <<HdrPathX, HdrPath>>}

\* A plans the inserts of hs and invokes the closure
Send_insert_headers ==
  \E hs \in InsertLists :
    LET invoke(p, r) ==
          /\ qp' = [qp EXCEPT !["A"] = r.q]
          /\ poisoned' = [poisoned EXCEPT !["A"] = (r.err = Panic)]
          /\ last' = Last("encode_insert_headers", "A", "commit", r.err)
          /\ sent' = {Sent(p.wire, hs, 0)}
        plan(p) ==
          IF p.err # NoError
            THEN /\ last' = Last("encode_insert_headers", "A", "plan", p.err)
                 /\ sent' = {Sent(<<>>, hs, 0)}
                 /\ UNCHANGED <<qp, poisoned>>
            ELSE invoke(p, commit(qp["A"], p.closure))
    IN /\ ~poisoned["A"]
       /\ qp["A"].table.insert_count + Len(hs) <= MaxInserts
       /\ plan(encode_insert_headers(qp["A"], hs))
       /\ UNCHANGED <<blockVars, estream, got, emitted, unitVars, lockVars>>

NextInsert ==
  \/ SetCapacity("A")
  \/ Send_insert_headers
  \/ Send_headers

SpecInsert == InitInsert /\ [][NextInsert]_vars

\* the encodings of the three insert instructions for header, whatever the
\* index they carry
DuplicateWires == {encode_duplicate(k) : k \in 0..MaxInserts}
NameReferenceWires(header) ==
  {encode_insert_refer_name(on_static, k, header.value) :
     on_static \in BOOLEAN, k \in 0..(STATIC_TABLE_SIZE - 1)}
LiteralNameWires(header) == {encode_insert_both_literal(header)}

IsPrefix(e, wire) == Len(e) <= Len(wire) /\ SubSeq(wire, 1, Len(e)) = e

RECURSIVE InstructionsAre(_, _, _)
\* wire is one instruction per header, of the kind that kinds(i) allows for
\* the i-th header
InstructionsAre(wire, headers, kinds) ==
  IF headers = <<>> THEN wire = <<>>
  ELSE \E e \in kinds[1] :
         /\ IsPrefix(e, wire)
         /\ InstructionsAre(SubSeq(wire, Len(e) + 1, Len(wire)), Tail(headers),
                            Tail(kinds))

InDynamic(t, header) ==
  \E i \in 1..Len(t.list) :
    t.list[i].name = header.name /\ t.list[i].value = header.value
InStatic(header) ==
  \E i \in 1..STATIC_TABLE_SIZE :
    STATIC_TABLE[i][1] = header.name /\ STATIC_TABLE[i][2] = header.value
NameInDynamic(t, header) == \E i \in 1..Len(t.list) : t.list[i].name = header.name
NameInStatic(header) == \E i \in 1..STATIC_TABLE_SIZE : STATIC_TABLE[i][1] = header.name

\* the instruction kinds of the stated rule: a Duplicate needs the pair in
\* the dynamic table and the capacity for one more copy
StatedKinds(t, headers) ==
  [i \in 1..Len(headers) |->
     IF InDynamic(t, headers[i]) /\ is_insertable(t, <<headers[i]>>)
       THEN DuplicateWires
       ELSE IF NameInDynamic(t, headers[i]) \/ NameInStatic(headers[i])
              THEN NameReferenceWires(headers[i])
              ELSE LiteralNameWires(headers[i])]

\* the instruction kinds when a pair of the static table is always inserted
\* by name reference and the capacity is not looked at
StaticFirstKinds(t, headers) ==
  [i \in 1..Len(headers) |->
     IF InDynamic(t, headers[i]) /\ ~InStatic(headers[i])
       THEN DuplicateWires
       ELSE IF NameInDynamic(t, headers[i]) \/ NameInStatic(headers[i])
              THEN NameReferenceWires(headers[i])
              ELSE LiteralNameWires(headers[i])]

InsertsCommitted(x) ==
  /\ qp'["A"].table = insert_headers_in_order(qp["A"].table, x.headers).t
  /\ last'.err = insert_headers_in_order(qp["A"].table, x.headers).err
  /\ qp'["A"].encoder.known_sending_count =
       qp["A"].encoder.known_sending_count
         + (IF last'.err = NoError THEN Len(x.headers) ELSE 0)

\* C33: encode_insert_headers chooses for each header, in order, Duplicate
\* when the pair is in the dynamic table and the capacity permits the
\* duplicate, otherwise Insert With Name Reference when the name is in the
\* static or the dynamic table, otherwise Insert With Literal Name; the
\* closure applies the inserts in that order and advances
\* known_sending_count by their number.
C33_InsertInstructionChosen ==
  [][last'.op = "encode_insert_headers" =>
       \A x \in sent' :
         /\ last'.phase = "commit"
         /\ InstructionsAre(x.wire, x.headers, StatedKinds(qp["A"].table, x.headers))
         /\ InsertsCommitted(x)]_vars

\* C33, with the static table first and no look at the capacity: Duplicate
\* when the pair is in the dynamic table and not in the static table; the
\* closure applies the inserts in order up to the first that fails, and
\* advances known_sending_count by their number when none failed.
C33_InsertInstructionStaticFirst ==
  [][last'.op = "encode_insert_headers" =>
       \A x \in sent' :
         /\ last'.phase = "commit"
         /\ InstructionsAre(x.wire, x.headers, StaticFirstKinds(qp["A"].table, x.headers))
         /\ InsertsCommitted(x)]_vars
----------------------------------------------------------------------------
(* SpecVarint: Qnum::decode and Decoder::parse_string on buffers a peer    *)
(* can send, among them buffers that end inside an integer or a string.    *)

RECURSIVE Qnum_decode_rest_wrapping(_, _, _, _, _)
\* the continuation loop of Qnum::decode in a build without overflow checks:
\* a shift by m >= 32 shifts by m % 32.  The buffers drawn below keep every
\* sum under 2^31.
Qnum_decode_rest_wrapping(encoded, idx, len, m, val) ==
  IF idx + len >= Len(encoded)
    THEN [err |-> Panic, len |-> len, val |-> val]
    ELSE LET b == encoded[idx + len + 1]
             v == val + (b % 128) * Pow2(m % 32)
         IN IF b \div 128 = 1
              THEN Qnum_decode_rest_wrapping(encoded, idx, len + 1, m + 7, v)
              ELSE [err |-> NoError, len |-> len + 1, val |-> v]

\* Qnum::decode in a build without overflow checks
Qnum_decode_wrapping(encoded, idx, n) ==
  IF idx >= Len(encoded)
    THEN [err |-> Panic, len |-> 0, val |-> 0]
    ELSE LET mask == Pow2(n) - 1
             val == encoded[idx + 1] % (mask + 1)
         IN IF val = mask
              THEN Qnum_decode_rest_wrapping(encoded, idx, 1, 0, val)
              ELSE [err |-> NoError, len |-> 1, val |-> val]

\* what Qnum::decode returns in a build with and in one without overflow checks
Qnum_decode_builds(encoded, idx, n) ==
  {Qnum_decode(encoded, idx, n), Qnum_decode_wrapping(encoded, idx, n)}

VarintBytes == {0, 1, 2, 127, 128, 255}
MaxVarintLen == 3

\* the integer 2^35 + 2^n - 1 in seven bytes, and the same cut short
LongVarints ==
  {<<255, 128, 128, 128, 128, 128, 1>>, <<255, 128, 128, 128, 128, 128>>}

VarintWires == (StringsUpTo(VarintBytes, MaxVarintLen) \ {<<>>}) \cup LongVarints

InitVarint == Init

\* Qnum::decode(&wire, 0, n)
Qnum_decode_wire ==
  /\ direct = NoCall
  /\ \E wire \in VarintWires, n \in PrefixWidths :
       \E out \in Qnum_decode_builds(wire, 0, n) :
         /\ direct' = DirectCall("Qnum::decode",
                                 [wire |-> wire, n |-> n, len |-> out.len, val |-> out.val],
                                 out.err, NoHeader)
         /\ UNCHANGED <<tableVars, blockVars, wireVars, dt, inserted, lockVars>>

\* Decoder::parse_string(&wire, 0, 7)
Parse_string_wire ==
  /\ direct = NoCall
  /\ \E wire \in VarintWires :
       LET out == parse_string(wire, 0, 7)
       IN /\ direct' = DirectCall("parse_string",
                                  [wire |-> wire, n |-> 7, len |-> out.len, val |-> 0],
                                  out.err, Header(<<>>, out.value, FALSE))
          /\ UNCHANGED <<tableVars, blockVars, wireVars, dt, inserted, lockVars>>

NextVarint ==
  \/ Qnum_decode_wire
  \/ Parse_string_wire

SpecVarint == InitVarint /\ [][NextVarint]_vars

\* the prefix of wire is all ones and every byte after it has its
\* continuation bit set: the integer runs past the end of the buffer
RunsPastEnd(wire, n) ==
  /\ wire[1] % Pow2(n) = Pow2(n) - 1
  /\ \A i \in 2..Len(wire) : wire[i] \div 128 = 1

\* a continuation byte that is part of the integer carries bits of weight
\* 2^32 or more
ExceedsU32(wire, n) ==
  /\ wire[1] % Pow2(n) = Pow2(n) - 1
  /\ \E i \in 2..Len(wire) :
       /\ \A j \in 2..(i - 1) : wire[j] \div 128 = 1
       /\ 7 * (i - 2) >= 32
       /\ wire[i] % 128 > 0

\* C34: Qnum::decode, and parse_string through it, report a malformed-input
\* error, and neither read past the buffer nor wrap, when the continuation
\* bytes run past the end of the buffer or the value exceeds u32.
C34_VarintReportsMalformed ==
  direct.op \in {"Qnum::decode", "parse_string"}
    /\ (RunsPastEnd(direct.arg.wire, direct.arg.n) \/ ExceedsU32(direct.arg.wire, direct.arg.n))
    => direct.err \notin {NoError, Panic}
----------------------------------------------------------------------------
(* SpecRefs: Codec A in the encoder role, sending sections on two streams, *)
(* a second one on a stream also while its first is still pending, against *)
(* a peer that acknowledges and cancels the streams with a pending section.*)

InitRefs == Init

\* A sends a section on a stream; pending_sections keeps one section per
\* stream, and sent the eviction count at which that section was planned
Refs_send ==
  \E hs \in HeaderLists, s \in CancelStreams :
    LET invoke(r) ==
          /\ r.err = NoError
          /\ qp' = [qp EXCEPT !["A"] = r.q]
          /\ last' = Last("encode_headers", "A", "commit", NoError)
          /\ sent' = IF r.q.encoder = qp["A"].encoder THEN sent
                     ELSE {x \in sent : x.stream_id # s}
                            \cup {Reference(s, qp["A"].table.eviction_count)}
        plan(p) ==
          /\ p.err = NoError
          /\ invoke(commit(qp["A"], p.closure))
    IN /\ ~poisoned["A"]
       /\ \A i \in 1..Len(qp["A"].table.list) :
            qp["A"].table.list[i].outstanding_count < MaxOutstanding
       /\ plan(encode_headers(qp["A"], hs, s))
       /\ UNCHANGED <<poisoned, blockVars, estream, got, emitted, unitVars, lockVars>>

\* the peer acknowledges (ack) or cancels a stream that has a pending section
Refs_recv(ack) ==
  \E s \in CancelStreams :
    LET invoke(r) ==
          /\ qp' = [qp EXCEPT !["A"] = r.q]
          /\ poisoned' = [poisoned EXCEPT !["A"] = (r.err = Panic)]
          /\ last' = Last(IF ack THEN "section_ackowledgment" ELSE "stream_cancellation",
                          "A", "commit", r.err)
        plan(p) ==
          /\ p.err = NoError
          /\ invoke(commit(qp["A"], p.closure))
    IN /\ ~poisoned["A"]
       /\ has_section(qp["A"].encoder, s)
       /\ plan(decode_decoder_instruction(qp["A"],
                 IF ack THEN encode_section_ackowledgment(s)
                 ELSE encode_stream_cancellation(s)))
       /\ sent' = {x \in sent : x.stream_id # s}
       /\ UNCHANGED <<blockVars, estream, got, emitted, unitVars, lockVars>>

Refs_ack == Refs_recv(TRUE)
Refs_cancel == Refs_recv(FALSE)

NextRefs ==
  \/ SetCapacity("A")
  \/ InsertHeaders("A")
  \/ Refs_send
  \/ Refs_ack
  \/ Refs_cancel

SpecRefs == InitRefs /\ [][NextRefs]_vars

RECURSIVE ReferencesHeld(_, _)
\* the references that the pending sections of the references xs hold to the
\* entry of absolute index a
ReferencesHeld(xs, a) ==
  IF xs = {} THEN 0
  ELSE LET x == CHOOSE y \in xs : TRUE
       IN Occurrences(qp["A"].encoder.pending_sections[x.stream_id][2], a - x.evicted)
            + ReferencesHeld(xs \ {x}, a)

\* C35: the outstanding_count of each live entry equals the number of
\* references that the encoder's pending sections hold to it, so that all
\* counts are 0 once every section is acknowledged or cancelled, also when
\* two sections were committed on one stream before either was acknowledged.
C35_ReferenceCountsDoNotLeak ==
  LET t == qp["A"].table
  IN /\ {x.stream_id : x \in sent} = DOMAIN qp["A"].encoder.pending_sections
     /\ \A i \in 1..Len(t.list) :
          t.list[i].outstanding_count = ReferencesHeld(sent, i - 1 + t.eviction_count)
----------------------------------------------------------------------------
(* The two dynamic tables of a connection, in SpecPair *)

\* what the peers must agree on: the capacity, the entries in order and the
\* two counts
TableContents(t) ==
  [capacity |-> t.capacity,
   entries |-> [i \in 1..Len(t.list) |-> <<t.list[i].name, t.list[i].value>>],
   insert_count |-> t.insert_count,
   eviction_count |-> t.eviction_count]

----------------------------------------------------------------------------
(* The counts and the size of the dynamic table, checked under Spec *)

RECURSIVE EntrySizes(_)
\* the sum of len(name) + len(value) + 32 over the entries of list
EntrySizes(list) ==
  IF list = <<>> THEN 0
  ELSE Header_size(Head(list).name, Head(list).value) + EntrySizes(Tail(list))

\* C37: in every state between operations, after calls that failed too,
\* insert_count = eviction_count + the number of entries in the table, and
\* current_size = the sum of len(name) + len(value) + 32 over those entries.
C37_CountsAndSizeAgree ==
  \A c \in Codecs :
    /\ qp[c].table.insert_count = qp[c].table.eviction_count + Len(qp[c].table.list)
    /\ qp[c].table.current_size = EntrySizes(qp[c].table.list)

\* a set_capacity has just failed on a table that holds two entries of
\* different sizes and has evicted before
C37_Witness ==
  /\ last.op = "encode_set_dynamic_table_capacity"
  /\ last.err # NoError
  /\ qp["A"].table.eviction_count > 0
  /\ Len(qp["A"].table.list) = 2
  /\ qp["A"].table.current_size = Header_size(HdrAX.name, HdrAX.value)
                                    + Header_size(HdrAYY.name, HdrAYY.value)
----------------------------------------------------------------------------
(* SpecAbsent: Codec A, with sections pending on stream 4 or on none,      *)
(* acknowledges and cancels streams that its decoder has no pending        *)
(* section for, and receives Stream Cancellations for streams that its     *)
(* encoder has no pending section for.                                     *)

InitAbsent == Init

\* commit(encode_section_ackowledgment(s)), no section of s pending in the decoder
Absent_section_ack ==
  \E s \in CancelStreams :
    /\ s \notin DOMAIN qp["A"].decoder.pending_sections
    /\ Call("A", "encode_section_ackowledgment", Qpack_encode_section_ackowledgment(s))

\* commit(encode_stream_cancellation(s)), no section of s pending in the decoder
Absent_stream_cancellation ==
  \E s \in CancelStreams :
    /\ s \notin DOMAIN qp["A"].decoder.pending_sections
    /\ Call("A", "encode_stream_cancellation", Qpack_encode_stream_cancellation(s))

\* a Stream Cancellation of s read from the decoder stream and committed, no
\* section of s pending in the encoder
Absent_recv_cancellation ==
  \E s \in CancelStreams :
    /\ ~has_section(qp["A"].encoder, s)
    /\ Call("A", "stream_cancellation",
            decode_decoder_instruction(qp["A"], encode_stream_cancellation(s)))

NextAbsent ==
  \/ SetCapacity("A")
  \/ InsertHeaders("A")
  \/ SendHeaders("A")
  \/ Absent_section_ack
  \/ Absent_stream_cancellation
  \/ Absent_recv_cancellation

SpecAbsent == InitAbsent /\ [][NextAbsent]_vars

\* C38: committing encode_section_ackowledgment or encode_stream_cancellation
\* for a stream the local decoder has no pending section for, and applying a
\* received Stream Cancellation for a stream the encoder has no pending
\* section for, each complete, as a no-op or with an error value, never
\* abort the Codec, and leave its state unchanged.
C38_AbsentStreamNeverAborts ==
  [][last'.op \in {"encode_section_ackowledgment", "encode_stream_cancellation",
                   "stream_cancellation"}
       => /\ last'.err # Panic
          /\ ~poisoned'["A"]
          /\ qp' = qp]_vars
----------------------------------------------------------------------------
(* SpecIncrement: Codec B in the decoder role: it applies encoder-stream   *)
(* buffers, decodes sections, acknowledges them, and plans Insert Count    *)
(* Increments whose closures it invokes later, other closures in between.  *)

InitIncrement == Init

\* B applies one buffer of the encoder stream
Increment_apply ==
  \E wire \in EncoderWires(qp[B]) :
    /\ qp[B].table.insert_count < MaxInserts
    /\ Call(B, "decode_encoder_instruction", decode_encoder_instruction(qp[B], wire))

\* the sections of one indexed field line that need r inserts, r up to the
\* inserts B has
ReadySections(t) ==
  LET prefixes == {Encoder_prefix(t, r, FALSE, r) : r \in 1..t.insert_count}
  IN {p.wire \o encode_indexed(0, FALSE) : p \in {x \in prefixes : x.err = NoError}}

\* B decodes a section, which leaves a pending section on the stream
Increment_decode ==
  \E wire \in ReadySections(qp[B].table), id \in CancelStreams :
    LET return(r) ==
          /\ r.err = NoError
          /\ qp' = [qp EXCEPT ![B] = r.q]
          /\ last' = Last("decode_headers", B, "return", r.err)
    IN /\ ~poisoned[B]
       /\ return(decode_headers(qp[B], wire, id))
       /\ UNCHANGED <<poisoned, blockVars, wireVars, unitVars, lockVars>>

\* B acknowledges a section it has decoded
Increment_section_ack ==
  \E s \in DOMAIN qp[B].decoder.pending_sections :
    Call(B, "encode_section_ackowledgment", Qpack_encode_section_ackowledgment(s))

\* what encode_insert_count_increment returned, with the insert_count of the
\* table it read
PlannedIncrement(p, insert_count) ==
  [increment |-> IF p.err = NoError THEN p.closure.num ELSE 0,
   wire |-> p.wire, closure |-> p.closure, insert_count |-> insert_count]

\* B plans an Insert Count Increment and keeps the closure
Increment_plan ==
  LET plan(p) ==
        /\ direct' = DirectCall("plan", PlannedIncrement(p, qp[B].table.insert_count),
                                p.err, NoHeader)
        /\ last' = Last("encode_insert_count_increment", B, "plan", p.err)
  IN /\ ~poisoned[B]
     /\ direct.op # "plan"
     /\ plan(Qpack_encode_insert_count_increment(qp[B]))
     /\ UNCHANGED <<qp, poisoned, blockVars, wireVars, dt, inserted, lockVars>>

\* B invokes the closure it kept
Increment_commit ==
  LET invoke(r) ==
        /\ qp' = [qp EXCEPT ![B] = r.q]
        /\ poisoned' = [poisoned EXCEPT ![B] = (r.err = Panic)]
        /\ direct' = DirectCall("commit", direct.arg, r.err, NoHeader)
        /\ last' = Last("encode_insert_count_increment", B, "commit", r.err)
  IN /\ ~poisoned[B]
     /\ direct.op = "plan"
     /\ direct.err = NoError
     /\ invoke(commit(qp[B], direct.arg.closure))
     /\ UNCHANGED <<blockVars, wireVars, dt, inserted, lockVars>>

NextIncrement ==
  \/ Increment_apply
  \/ Increment_decode
  \/ Increment_section_ack
  \/ Increment_plan
  \/ Increment_commit

SpecIncrement == InitIncrement /\ [][NextIncrement]_vars

\* C39: encode_insert_count_increment emits the increment insert_count -
\* known_received_count of the local table, also after evictions, and never
\* the increment 0; after its closure known_received_count equals the
\* insert_count read at planning, even if a Section Acknowledgment was
\* committed between the planning and the closure.
C39_IncrementCoversInserts ==
  [][last'.op = "encode_insert_count_increment" =>
       LET t == qp[B].table
           n == t.insert_count - t.known_received_count
       IN IF last'.phase = "plan"
            THEN IF n > 0
                   THEN /\ direct'.err = NoError
                        /\ direct'.arg.increment = n
                        /\ Qnum_decode(direct'.arg.wire, 0, 6).val = n
                   ELSE direct'.arg.wire = <<>>
            ELSE /\ last'.err = NoError
                 /\ qp'[B].table.known_received_count = direct.arg.insert_count]_vars
----------------------------------------------------------------------------
(* SpecView: one thread of Codec A runs encode_headers, which takes the    *)
(* read lock of the dynamic table once for each header it looks up, once   *)
(* for get_insert_count and once for get_dynamic_table_entry_len, while    *)
(* another thread invokes one closure that takes the write lock.           *)

\* Qpack::encode_headers from the find results on: the prefix from the
\* counts of t, then the fields
encode_headers_found(t, find_index_results, headers, stream_id) ==
  LET planned(meta, f) ==
        IF f.err # NoError THEN Planned(f.err, f.wire, NoClosure)
        ELSE Planned(NoError, f.wire,
                     Closure("encode_headers", <<>>, stream_id, meta[1], f.indices))
      fields(meta, p) ==
        IF p.err # NoError THEN Planned(p.err, <<>>, NoClosure)
        ELSE planned(meta, encode_fields(find_index_results, headers, 1, meta[2],
                                         meta[3], p.wire, <<>>))
      prefix(meta) == fields(meta, Encoder_prefix(t, meta[1], meta[2], meta[3]))
  IN prefix(get_prefix_meta_data(t, find_index_results, TRUE))

\* what encode_headers returns when get_insert_count returned insert_count
\* and the table was t at get_dynamic_table_entry_len.  insert_count -
\* entry_len below zero panics in a build with overflow checks and wraps in
\* one without, where the sum with max + 1 wraps back.
encode_headers_outcomes(t, find_index_results, insert_count, headers, stream_id) ==
  LET read == [t EXCEPT !.insert_count = insert_count]
      hits == DynamicHits(find_index_results)
      wrapped == encode_headers_found(read, find_index_results, headers, stream_id)
  IN IF hits # {} /\ insert_count < Len(t.list)
       THEN {Planned(Panic, <<>>, NoClosure)}
              \cup IF SetMax(hits) + 1 + insert_count - Len(t.list) >= 0
                     THEN {wrapped} ELSE {}
       ELSE {wrapped}

InitView == Init

\* where the planning thread is, and what it has read
Planning(pc, headers, results, insert_count, plan, before, after) ==
  DirectCall(pc,
             [headers |-> headers, results |-> results, insert_count |-> insert_count,
              plan |-> plan, before |-> before, after |-> after],
             NoError, NoHeader)

NotPlanned == Planned(NoError, <<>>, NoClosure)

IsPlanning == direct.op \in {"find_header", "get_insert_count", "get_entry_len"}

\* encode_headers(&mut encoded, headers, 4) is called; dt keeps the table
\* the call found
View_encode_headers ==
  \E hs \in HeaderLists :
    /\ direct = NoCall
    /\ ~poisoned["A"]
    /\ direct' = Planning("find_header", hs, <<>>, 0, NotPlanned, NotPlanned, NotPlanned)
    /\ dt' = qp["A"].table
    /\ UNCHANGED <<tableVars, blockVars, wireVars, inserted, lockVars>>

\* Table::find_header for the next header, under its own read lock
View_find_header ==
  LET a == direct.arg
      results == Append(a.results, find_header(qp["A"].table, a.headers[Len(a.results) + 1]))
  IN /\ direct.op = "find_header"
     /\ direct' = Planning(IF Len(results) = Len(a.headers)
                             THEN "get_insert_count" ELSE "find_header",
                           a.headers, results, 0, NotPlanned, NotPlanned, NotPlanned)
     /\ UNCHANGED <<tableVars, blockVars, wireVars, dt, inserted, lockVars>>

\* Table::get_insert_count in get_prefix_meta_data
View_get_insert_count ==
  LET a == direct.arg
  IN /\ direct.op = "get_insert_count"
     /\ direct' = Planning("get_entry_len", a.headers, a.results,
                           qp["A"].table.insert_count, NotPlanned, NotPlanned, NotPlanned)
     /\ UNCHANGED <<tableVars, blockVars, wireVars, dt, inserted, lockVars>>

\* Table::get_dynamic_table_entry_len, and the rest of encode_headers, which
\* reads the table no more; kept with it are what encode_headers returns on
\* the table the call found and on the table as it is now
View_get_entry_len ==
  LET a == direct.arg
  IN /\ direct.op = "get_entry_len"
     /\ \E plan \in encode_headers_outcomes(qp["A"].table, a.results, a.insert_count,
                                            a.headers, 4) :
          direct' = Planning("planned", a.headers, a.results, a.insert_count, plan,
                             encode_headers([qp["A"] EXCEPT !.table = dt], a.headers, 4),
                             encode_headers(qp["A"], a.headers, 4))
     /\ UNCHANGED <<tableVars, blockVars, wireVars, dt, inserted, lockVars>>

\* the plans whose closure the other thread invokes
ViewPlans(q) ==
  {Qpack_encode_set_dynamic_table_capacity(cap) : cap \in Capacities}
    \cup {encode_insert_headers(q, hs) :
            hs \in {x \in HeaderLists : q.table.insert_count + Len(x) <= MaxInserts}}

\* another thread invokes a closure of encode_set_dynamic_table_capacity or
\* encode_insert_headers: any number before encode_headers is called, one
\* while it runs
View_commit ==
  \E p \in ViewPlans(qp["A"]) :
    LET invoke(r) ==
          /\ qp' = [qp EXCEPT !["A"] = r.q]
          /\ poisoned' = [poisoned EXCEPT !["A"] = (r.err = Panic)]
          /\ last' = Last(p.closure.kind, "A", "commit", r.err)
    IN /\ direct.op # "planned"
       /\ emitted = 0
       /\ ~poisoned["A"]
       /\ p.err = NoError
       /\ invoke(commit(qp["A"], p.closure))
       /\ emitted' = IF IsPlanning THEN 1 ELSE 0
       /\ UNCHANGED <<blockVars, estream, sent, got, unitVars, lockVars>>

NextView ==
  \/ View_encode_headers
  \/ View_find_header
  \/ View_get_insert_count
  \/ View_get_entry_len
  \/ View_commit

SpecView == InitView /\ [][NextView]_vars

\* C40: encode_headers encodes from one consistent view of the dynamic
\* table when a closure that inserts or evicts runs concurrently: the prefix
\* and the indices it returns are those of the table entirely before or
\* entirely after that closure, never a mixture.
C40_OneConsistentView ==
  direct.op = "planned" => direct.arg.plan \in {direct.arg.before, direct.arg.after}
====
